---- MODULE Spec2Model ----
(***************************************************************************)
(* Model of the Home Assistant edge proxy (cloud-run/edge_proxy.py): the   *)
(* sliding-window rate limiter, the SYNC/Discovery and QUERY/ReportState   *)
(* caches, the upstream proxy call and the two fulfillment handlers        *)
(* (google_assistant, alexa_smart_home), run by concurrent request         *)
(* workers that share the caches, the limiter and the two locks.           *)
(*                                                                         *)
(* Time is the integer reading of time.time().  A request worker moves     *)
(* through pc = idle -> rate -> (lookup) -> upstream -> (store) ->         *)
(* (webhook) -> idle;                                                      *)
(* every step between two blocking points (a lock acquisition, the         *)
(* upstream POST, the webhook POST) is one action.  Sections guarded by    *)
(* `with cache_lock` / `with rate_lock` that hold nothing blocking are     *)
(* single actions; the one section that blocks while it holds cache_lock   *)
(* (the Alexa offline fallback) keeps cache_lock across two actions.       *)
(*                                                                         *)
(* The variable out shows the response a step has just computed, together  *)
(* with the request it answers; the step deliver takes it off again, and   *)
(* no other step is taken while a response is shown.                       *)
(***************************************************************************)
EXTENDS Integers, Sequences, FiniteSets, TLC

\* ------------------------------------------------------------------ bounds
\* Largest clock reading explored.
MaxTime == 3

\* ------------------------------------------------------- configuration
RATE_LIMIT_REQUESTS == 2
RATE_LIMIT_WINDOW == 2
SYNC_CACHE_TTL == 2
ALEXA_DISCOVERY_TTL == 2
\* WEBHOOK_URL is set, LOG_REQUESTS is true.
WEBHOOK_URL == "http://hook"
LOG_REQUESTS == TRUE
\* The AUTH environment variable, "user:pass".
AUTH == "admin:secret"

\* ------------------------------------------------------------- domains
\* The request workers (threads) that run concurrently.
Req == {1, 2}
IPs == {"ip1", "ip2"}
\* agentUserId values (Google) / Authorization header values (Alexa).
Principals == {"a", "b"}
Devices == {"D1", "D2"}
States == {"on", "off"}
\* Device-list payloads an enumeration can return.
Payloads == {"P1", "P2"}

GoogleIntents ==
    {"action.devices.SYNC", "action.devices.QUERY", "action.devices.EXECUTE", "unknown"}
\* Alexa directives, written namespace/name.
AlexaDirectives ==
    {"Alexa.Discovery/Discover", "Alexa/ReportState",
     "Alexa.PowerController/TurnOn", "Alexa.Authorization/AcceptGrant"}

\* directive.header.namespace of an Alexa directive.
Namespace(d) ==
    CASE d = "Alexa.Discovery/Discover" -> "Alexa.Discovery"
      [] d = "Alexa/ReportState" -> "Alexa"
      [] d = "Alexa.PowerController/TurnOn" -> "Alexa.PowerController"
      [] OTHER -> "Alexa.Authorization"

\* directive.header.name of an Alexa directive.
Name(d) ==
    CASE d = "Alexa.Discovery/Discover" -> "Discover"
      [] d = "Alexa/ReportState" -> "ReportState"
      [] d = "Alexa.PowerController/TurnOn" -> "TurnOn"
      [] OTHER -> "AcceptGrant"

\* namespace.endswith("Controller")
EndsWithController(ns) == ns = "Alexa.PowerController"

\* The branch of the handler a request takes: the if/elif chain on the intent
\* (Google) or on namespace and name (Alexa).
Branch(dialect, intent) ==
    IF dialect = "google"
    THEN CASE intent = "action.devices.SYNC" -> "ENUM"
           [] intent = "action.devices.QUERY" -> "READ"
           [] intent = "action.devices.EXECUTE" -> "EXEC"
           [] OTHER -> "OTHER"
    ELSE CASE Namespace(intent) = "Alexa.Discovery" /\ Name(intent) = "Discover" -> "ENUM"
           [] Namespace(intent) = "Alexa" /\ Name(intent) = "ReportState" -> "READ"
           [] OTHER -> "OTHER"

\* hashlib.sha256(auth_header.encode()).hexdigest()[:16]
Sha16(h) ==
    CASE h = "a" -> "ca978112ca1bbdca"
      [] h = "b" -> "3e23e8160039594a"
      [] OTHER   -> "e3b0c44298fc1c14"

\* One key for every caller, for comparison.
UserId_shared(dialect, principal) == "default"

\* The key of the enumeration cache: agentUserId ("default" when the body has
\* none, shown as principal ""), or the hash of the Authorization header ("" when
\* the request has none).
UserId(dialect, principal) ==
    IF dialect = "google"
    THEN (IF principal = "" THEN "default" ELSE principal)
    ELSE Sha16(principal)

\* ---------------------------------------------------------------- maps
\* Python dicts: functions whose domain is the set of keys present.
EmptyMap == [k \in {} |-> 0]
Put(m, k, v) == [x \in (DOMAIN m) \cup {k} |-> IF x = k THEN v ELSE m[x]]

\* ------------------------------------------------------------ JSON bodies
\* A JSON value handled by the proxy.  tag "none" is Python None, tag "empty" a
\* falsy JSON value ({} or null); devices maps a device id to its state record,
\* properties is the Alexa context.properties list ("" when empty).
Blank ==
    [tag |-> "none", payload |-> "", devices |-> EmptyMap, properties |-> "",
     error |-> "", retry_after |-> 0, sync_cleared |-> 0, query_cleared |-> 0,
     sync_count |-> 0, query_count |-> 0, active_ips |-> 0,
     enabled |-> FALSE, updated_at |-> -1]

None == Blank
EmptyJson == [Blank EXCEPT !.tag = "empty"]
\* jsonify({"error": e})
ErrorJson(e) == [Blank EXCEPT !.tag = "error", !.error = e]
\* A SYNC response / Discover.Response listing the devices of payload p.
SyncJson(p) == [Blank EXCEPT !.tag = "sync", !.payload = p]
\* A QUERY response: {"payload": {"devices": m}}.
QueryJson(m) == [Blank EXCEPT !.tag = "query", !.devices = m]
\* An Alexa StateReport: {"context": {"properties": p}}.
ReportJson(p) == [Blank EXCEPT !.tag = "report", !.properties = p]
\* The answer to a command (EXECUTE response, controller Response event).
ResultJson == [Blank EXCEPT !.tag = "result"]
\* A JSON body the upstream sends with an error status, e.g. {"message": "..."}.
MessageJson == [Blank EXCEPT !.tag = "message", !.error = "ha_error"]

\* Python truthiness of a parsed response.
Truthy(j) == j.tag \notin {"none", "empty"}

\* A device's state dict as the upstream reports it.
Live(s) == [state |-> s, _cached |-> FALSE, _cached_at |-> -1]

\* Google QUERY responses: a state for each device of some subset.
DeviceMaps ==
    UNION {[S -> {Live(s) : s \in States}] : S \in SUBSET Devices}

\* --------------------------------------------------------------- state
VARIABLES
    clock,                  \* time.time()
    rate_limits,            \* {ip: [timestamps]}
    sync_cache,             \* {user_id: {response, expires_at}}
    query_cache,            \* {device_id: {state, updated_at}}
    alexa_discovery_cache,  \* {user_id: {response, expires_at}}
    alexa_state_cache,      \* {endpoint_id: {properties, updated_at}}
    cache_lock,             \* 0 when free, else the worker holding it
    req,                    \* per worker: the request it is handling
    out,                    \* the response computed by the step just taken (Idle: none)
    recent,                 \* history: per ip and time t with clock - t < window, the number of requests admitted with timestamp t
    last_admit,             \* history: per ip, the latest admitted timestamp (-1: none)
    stored,                 \* history: per enumeration-cache key, when the entry now held was stored and when the call that stored it arrived
    environ,                \* os.environ and the settings read from it at import: AUTH, WEBHOOK_URL, REMOTE_UI_ENABLED
    remote_ui_settings,     \* {enabled, updated_at}
    ui_req,                 \* per worker: the /edge/remote-ui request it is handling
    heard,                  \* history: what the upstream has answered (see Heard)
    written                 \* history: the (enabled, updated_at) pairs that single writers wrote (the import, each POST /edge/remote-ui) with the updated_at now in remote_ui_settings

caches == <<sync_cache, query_cache, alexa_discovery_cache, alexa_state_cache>>
limiter == <<rate_limits, recent, last_admit, stored>>
admin == <<environ, remote_ui_settings, ui_req, written>>
vars == <<clock, rate_limits, sync_cache, query_cache, alexa_discovery_cache,
          alexa_state_cache, cache_lock, req, out, recent, last_admit, stored,
          environ, remote_ui_settings, ui_req, heard, written>>

\* What a network reply to requests.post can be: no reply in time, no connection,
\* a body that is not JSON, any other exception, or a JSON body with a status.
NoReply == [kind |-> "none", status |-> 0, body |-> None]

\* A worker with no request.
Idle ==
    [pc |-> "idle", dialect |-> "", intent |-> "", ip |-> "", principal |-> "",
     devs |-> {}, valid |-> TRUE, now |-> 0, reply |-> NoReply,
     status |-> 0, body |-> None,
     calls |-> 0, reads |-> 0, writes |-> 0, audits |-> 0, hooks |-> 0,
     cached |-> FALSE, offline |-> FALSE, todo |-> {}, preclear |-> FALSE]

\* A worker with no /edge/remote-ui request.
UiIdle == [pc |-> "idle", method |-> "", auth |-> "", enabled |-> FALSE,
           counts |-> <<>>]

\* The environment of the deployed service: AUTH and WEBHOOK_URL set,
\* REMOTE_UI_ENABLED not set.
Deployed == [AUTH |-> AUTH, WEBHOOK_URL |-> WEBHOOK_URL, REMOTE_UI_ENABLED |-> FALSE]

\* The state after import under environment env.
Boot(env) ==
    /\ environ = env
    /\ remote_ui_settings = [enabled |-> env.REMOTE_UI_ENABLED, updated_at |-> 0]
    /\ ui_req = [r \in Req |-> UiIdle]
    /\ written = {<<env.REMOTE_UI_ENABLED, 0>>}
    /\ clock = 0
    /\ rate_limits = EmptyMap
    /\ sync_cache = EmptyMap
    /\ query_cache = EmptyMap
    /\ alexa_discovery_cache = EmptyMap
    /\ alexa_state_cache = EmptyMap
    /\ cache_lock = 0
    /\ req = [r \in Req |-> Idle]
    /\ out = Idle
    /\ recent = [i \in IPs |-> [t \in 0..MaxTime |-> 0]]
    /\ last_admit = [i \in IPs |-> -1]
    /\ stored = EmptyMap
    /\ heard = [fell_back |-> FALSE, google |-> EmptyMap, alexa |-> EmptyMap]

Init == Boot(Deployed)

\* ------------------------------------------------------- request workers
\* No response is being shown: the next step of the program can be taken.
Ready == out.pc = "idle"

\* The response shown by the last step is taken off.
deliver ==
    /\ out.pc # "idle"
    /\ out' = Idle
    /\ UNCHANGED <<clock, rate_limits, sync_cache, query_cache, alexa_discovery_cache,
                   alexa_state_cache, cache_lock, req, recent, last_admit, stored, admin, heard>>

\* The handler returns rec's response: the worker is free again.
Respond(r, rec) ==
    /\ req' = [req EXCEPT ![r] = Idle]
    /\ out' = [rec EXCEPT !.pc = "done", !.now = 0]

\* A new request as the decorator sees it, its clock reading taken.
Request(dialect, intent, ip, principal, devs, valid) ==
    [Idle EXCEPT !.pc = "rate", !.dialect = dialect, !.intent = intent,
                 !.ip = ip, !.principal = principal, !.devs = devs,
                 !.valid = valid, !.now = clock]

\* A request arrives at a worker; the decorator reads the client ip and the clock
\* before it takes rate_lock.
Start(r, dialect, intent, ip, principal, devs, valid) ==
    /\ Ready
    /\ req[r].pc = "idle"
    /\ req' = [req EXCEPT ![r] = Request(dialect, intent, ip, principal, devs, valid)]
    /\ out' = Idle
    /\ UNCHANGED <<clock, rate_limits, sync_cache, query_cache, alexa_discovery_cache,
                   alexa_state_cache, cache_lock, recent, last_admit, stored, admin, heard>>

\* ----------------------------------------------------------- rate limiter
\* rate_limits[ip] of the defaultdict.
Timestamps(ip) == IF ip \in DOMAIN rate_limits THEN rate_limits[ip] ELSE <<>>

\* The timestamps kept by the pruning comprehension.
InWindow(ts, now) == SelectSeq(ts, LAMBDA t : now - t < RATE_LIMIT_WINDOW)

\* A limiter that lets one request more through, for comparison.
OverLimit_above(ts) == Len(ts) > RATE_LIMIT_REQUESTS

\* A limiter that rejects nothing, for comparison.
OverLimit_never(ts) == FALSE

\* The over-limit test.
OverLimit(ts) == Len(ts) >= RATE_LIMIT_REQUESTS

\* A limiter that records rejected requests too, for comparison.
Recorded_always(kept, now, admitted) == Append(kept, now)

\* The list the `with rate_lock` section leaves for the client: the pruned list,
\* with the request's timestamp appended when the request is admitted.
Recorded(kept, now, admitted) == IF admitted THEN Append(kept, now) ELSE kept

\* The response of a rejected request.
RateLimitJson ==
    [Blank EXCEPT !.tag = "error", !.error = "rate_limit_exceeded",
                  !.retry_after = RATE_LIMIT_WINDOW]

\* A handler that starts every request with the cache lookup, for comparison.
Enter_lookup(q) == [q EXCEPT !.pc = "lookup"]

\* The handler's first lines after admission: parse, validate, classify; then
\* either the enumeration-cache lookup or the upstream call is next.
Enter(q) ==
    IF Branch(q.dialect, q.intent) = "ENUM"
    THEN [q EXCEPT !.pc = "lookup"]
    ELSE [q EXCEPT !.pc = "upstream", !.calls = @ + 1, !.now = 0]

Max(a, b) == IF a >= b THEN a ELSE b

\* decorated() for request q of worker r: the whole `with rate_lock` section and,
\* when the request is admitted, the handler up to its first blocking point.
decorated(r, q) ==
    LET kept == InWindow(Timestamps(q.ip), q.now)
    IN  /\ rate_limits' = Put(rate_limits, q.ip, Recorded(kept, q.now, ~OverLimit(kept)))
        /\ IF OverLimit(kept)
           THEN /\ Respond(r, [q EXCEPT !.status = 429, !.body = RateLimitJson])
                /\ UNCHANGED <<recent, last_admit>>
           ELSE /\ recent' = [recent EXCEPT ![q.ip][q.now] =
                                 IF clock - q.now < RATE_LIMIT_WINDOW THEN @ + 1 ELSE @]
                /\ last_admit' = [last_admit EXCEPT ![q.ip] = Max(@, q.now)]
                /\ IF q.valid
                   THEN /\ req' = [req EXCEPT ![r] = Enter(q)]
                        /\ out' = Idle
                   ELSE Respond(r, [q EXCEPT !.status = 400,
                                             !.body = ErrorJson("invalid_request")])
        /\ UNCHANGED <<clock, sync_cache, query_cache, alexa_discovery_cache,
                       alexa_state_cache, cache_lock, stored, admin, heard>>

\* Worker r is inside a `with rate_lock` block: that of the decorator or that of
\* edge_stats.
InRateLock(r) == req[r].pc = "limiting" \/ ui_req[r].pc = "stats_rate"

\* The holder of rate_lock: the worker inside a `with rate_lock` block, 0 when
\* there is none.
rate_lock ==
    IF \E r \in Req : InRateLock(r) THEN CHOOSE r \in Req : InRateLock(r) ELSE 0

\* The decorator, statement by statement: a worker that has read the clock
\* enters the `with rate_lock` block.
rate_lock_enter(r) ==
    /\ Ready
    /\ req[r].pc = "rate"
    /\ rate_lock = 0
    /\ req' = [req EXCEPT ![r].pc = "limiting"]
    /\ out' = Idle
    /\ UNCHANGED <<clock, rate_limits, caches, cache_lock, recent, last_admit, stored,
                   admin, heard>>

\* The decorator, statement by statement: prune, test, reject or record, and
\* leave the `with rate_lock` block, by the early return or at its end.
rate_lock_leave(r) ==
    /\ Ready
    /\ req[r].pc = "limiting"
    /\ decorated(r, req[r])

\* A limiter step that waits for cache_lock as well, for comparison.
rate_limit_waits(r) ==
    /\ Ready
    /\ req[r].pc = "rate"
    /\ cache_lock = 0
    /\ decorated(r, req[r])

\* A worker that has read the clock gets rate_lock.
rate_limit(r) ==
    /\ Ready
    /\ req[r].pc = "rate"
    /\ decorated(r, req[r])

\* A request arrives and gets rate_lock at once, at the clock reading it took.
Arrive(r, dialect, intent, ip, principal, devs, valid) ==
    /\ Ready
    /\ req[r].pc = "idle"
    /\ decorated(r, Request(dialect, intent, ip, principal, devs, valid))

\* Time passes.
Tick ==
    /\ Ready
    /\ clock < MaxTime
    /\ clock' = clock + 1
    /\ recent' = [i \in IPs |-> [t \in 0..MaxTime |->
                     IF clock + 1 - t < RATE_LIMIT_WINDOW THEN recent[i][t] ELSE 0]]
    /\ UNCHANGED <<rate_limits, last_admit, sync_cache, query_cache,
                   alexa_discovery_cache, alexa_state_cache, cache_lock, req, out,
                   stored, admin, heard>>

\* ------------------------------------------------------------- caches
\* A store that keeps entries one time unit longer, for comparison.
cache_sync_response_longer(user_id, response) ==
    Put(sync_cache, user_id,
        [response |-> response, expires_at |-> clock + SYNC_CACHE_TTL + 1])

\* The new sync_cache of cache_sync_response.
cache_sync_response(user_id, response) ==
    Put(sync_cache, user_id,
        [response |-> response, expires_at |-> clock + SYNC_CACHE_TTL])

\* The `cached and cached["expires_at"] > time.time()` test of an enumeration entry.
Fresh(cache, user_id) ==
    user_id \in DOMAIN cache /\ cache[user_id].expires_at > clock

\* A lookup that never finds anything, for comparison.
get_cached_sync_miss(user_id) == None

get_cached_sync(user_id) ==
    IF Fresh(sync_cache, user_id) THEN sync_cache[user_id].response ELSE None

\* A store that drops the states it is given, for comparison.
cache_query_states_none(devices) == query_cache

\* A store in which the first writer of a device wins, for comparison.
cache_query_states_first(devices) ==
    [d \in (DOMAIN query_cache) \cup (DOMAIN devices) |->
        IF d \in DOMAIN query_cache
        THEN query_cache[d]
        ELSE [state |-> devices[d], updated_at |-> clock]]

\* The new query_cache of cache_query_states.
cache_query_states(devices) ==
    [d \in (DOMAIN query_cache) \cup (DOMAIN devices) |->
        IF d \in DOMAIN devices
        THEN [state |-> devices[d], updated_at |-> clock]
        ELSE query_cache[d]]

\* A lookup that finds no state, for comparison.
get_cached_states_none(device_ids) == EmptyMap

\* The dict get_cached_states returns: the cached state of every requested id
\* that has an entry, with the _cached and _cached_at keys added.
get_cached_states(device_ids) ==
    [d \in {x \in device_ids : x \in DOMAIN query_cache} |->
        [query_cache[d].state EXCEPT !._cached = TRUE,
                                     !._cached_at = query_cache[d].updated_at]]

\* The Alexa discovery lookup, written inline in alexa_smart_home.
get_cached_discovery(user_id) ==
    IF Fresh(alexa_discovery_cache, user_id)
    THEN alexa_discovery_cache[user_id].response ELSE None

\* The new alexa_discovery_cache of the inline store.
cache_discovery_response(user_id, response) ==
    Put(alexa_discovery_cache, user_id,
        [response |-> response, expires_at |-> clock + ALEXA_DISCOVERY_TTL])

\* The new alexa_state_cache of the inline store.
cache_endpoint_state(endpoint_id, properties) ==
    Put(alexa_state_cache, endpoint_id,
        [properties |-> properties, updated_at |-> clock])

\* The fallback StateReport built from the cached entry of an endpoint.
fallback_response(endpoint_id) ==
    ReportJson(alexa_state_cache[endpoint_id].properties)

\* History of an enumeration store: the entry of user_id is written now, by a
\* call that arrived at time asked.
Stored(user_id, asked) == Put(stored, user_id, [asked |-> asked, at |-> clock])

\* endpoint.get("endpointId"): the one endpoint of a ReportState directive.
EndpointId(q) == CHOOSE e \in q.devs : TRUE

\* ----------------------------------------------------------- upstream
ErrorReplies ==
    {[kind |-> k, status |-> 0, body |-> None] :
        k \in {"timeout", "connerr", "badjson", "exception"}}

JsonReplies(bodies) ==
    {[kind |-> "json", status |-> s, body |-> b] : s \in {200, 500}, b \in bodies}

\* (response_json, status_code, is_error) of proxy_to_upstream for a reply.
proxy_to_upstream(reply) ==
    CASE reply.kind = "json" ->
           [response |-> reply.body, status |-> reply.status, is_error |-> FALSE]
      [] reply.kind = "timeout" -> [response |-> None, status |-> 504, is_error |-> TRUE]
      [] reply.kind = "connerr" -> [response |-> None, status |-> 502, is_error |-> TRUE]
      [] reply.kind = "badjson" -> [response |-> None, status |-> 502, is_error |-> TRUE]
      [] OTHER -> [response |-> None, status |-> 500, is_error |-> TRUE]

\* `not is_error and response`: the handler takes the reply as a live answer.
Usable(up) == ~up.is_error /\ Truthy(up.response)

\* History of the upstream's answers after the reply to request q, served
\* telling whether the handler answers q from the state cache.  fell_back: an
\* offline fallback has been served on a timeout or a connection failure and
\* every upstream call that ended since then ended in a timeout or a connection
\* failure.  google, alexa: per device or endpoint, the state that the latest
\* ReadState answered with status 200 gave for it (for google, since
\* query_cache was last cleared).
Heard(q, reply, served) ==
    LET down == reply.kind \in {"timeout", "connerr"}
        live == /\ reply.kind = "json" /\ reply.status = 200
                /\ Branch(q.dialect, q.intent) = "READ"
        devices == reply.body.devices
    IN  [fell_back |-> IF down THEN (served \/ heard.fell_back) ELSE FALSE,
         google |-> IF live /\ q.dialect = "google"
                    THEN [d \in (DOMAIN heard.google) \cup (DOMAIN devices) |->
                             IF d \in DOMAIN devices THEN devices[d].state
                             ELSE heard.google[d]]
                    ELSE heard.google,
         alexa |-> IF live /\ q.dialect = "alexa" /\ reply.body.properties # ""
                   THEN Put(heard.alexa, EndpointId(q), reply.body.properties)
                   ELSE heard.alexa]

\* log_request: one audit record when LOG_REQUESTS is on.
Logged(rec) == IF LOG_REQUESTS THEN [rec EXCEPT !.audits = @ + 1] ELSE rec

\* What a worker keeps while it is in the webhook POST.
Pending(rec) ==
    [Idle EXCEPT !.pc = "webhook", !.dialect = rec.dialect, !.intent = rec.intent,
                 !.status = rec.status, !.body = rec.body, !.calls = rec.calls, !.reads = rec.reads,
                 !.writes = rec.writes, !.audits = rec.audits, !.hooks = rec.hooks + 1,
                 !.cached = rec.cached, !.offline = rec.offline]

\* A notifier that posts every event twice, for comparison.
call_webhook_twice(r, rec, log_after) ==
    /\ req' = [req EXCEPT ![r] = Pending([rec EXCEPT !.hooks = @ + 1])]
    /\ out' = [rec EXCEPT !.pc = "computed", !.hooks = @ + 2, !.now = 0]

\* call_webhook: with WEBHOOK_URL set the worker blocks in the POST.  rec holds
\* the response the handler has computed and returns afterwards; log_after says
\* that log_request runs after call_webhook on this path.
call_webhook(r, rec, log_after) ==
    IF environ.WEBHOOK_URL = ""
    THEN Respond(r, IF log_after THEN Logged(rec) ELSE rec)
    ELSE /\ req' = [req EXCEPT ![r] = Pending(rec)]
         /\ out' = [rec EXCEPT !.pc = "computed", !.hooks = @ + 1, !.now = 0]

\* How the POST to the webhook can end: sent, timed out, or any other exception.
WebhookOutcomes == {"sent", "timeout", "failed"}

\* A notifier whose failures reach the handler, for comparison.
Swallowed_raised(q, outcome) ==
    IF outcome = "sent" THEN q
    ELSE [q EXCEPT !.status = 500, !.body = ErrorJson("internal_error")]

\* The try/except of call_webhook: every outcome of the POST is logged and
\* swallowed, the handler goes on with the response q it had computed.
Swallowed(q, outcome) == q

\* A lock that is never given back, for comparison.
Held_kept(r, blocked) == r

\* A lock that is never taken, for comparison.
Held_dropped(r, blocked) == 0

\* The holder of cache_lock after worker r's step in a `with cache_lock` block:
\* r while the block is still blocked inside, nobody once the block is left.
Held(r, blocked) == IF blocked THEN r ELSE 0

\* The webhook POST ends; the handler logs where log_request follows
\* call_webhook, leaves the `with cache_lock` block it may be in, and returns the
\* response it had computed.
webhook_return(r, outcome) ==
    LET q == Swallowed(req[r], outcome)
    IN  /\ Ready
        /\ req[r].pc = "webhook"
        /\ req' = [req EXCEPT ![r] = Idle]
        /\ out' = [(IF Branch(q.dialect, q.intent) = "READ" THEN q ELSE Logged(q))
                     EXCEPT !.pc = "returned"]
        /\ cache_lock' = IF cache_lock = r THEN Held(r, FALSE) ELSE cache_lock
        /\ UNCHANGED <<clock, rate_limits, sync_cache, query_cache,
                       alexa_discovery_cache, alexa_state_cache, recent, last_admit, stored, admin, heard>>

\* What the upstream can answer to each kind of request.
SyncReplies ==
    ErrorReplies \cup JsonReplies({EmptyJson, MessageJson} \cup {SyncJson(p) : p \in Payloads})
QueryReplies ==
    ErrorReplies \cup JsonReplies({EmptyJson, MessageJson} \cup {QueryJson(m) : m \in DeviceMaps})
ReportReplies ==
    ErrorReplies \cup JsonReplies({EmptyJson, MessageJson} \cup {ReportJson(p) : p \in States \cup {""}})
CommandReplies ==
    ErrorReplies \cup JsonReplies({EmptyJson, MessageJson, ResultJson})

\* The tail of the EXECUTE, unknown-intent and Alexa controller branches:
\* `if is_error: return upstream_error, status` else the upstream's response.
Forwarded(q, up) ==
    IF up.is_error
    THEN [q EXCEPT !.status = up.status, !.body = ErrorJson("upstream_error")]
    ELSE [q EXCEPT !.status = 200, !.body = up.response]

\* The tail of the SYNC and Discovery branches when the reply is no live answer.
UpstreamError(q, up) ==
    [q EXCEPT !.status = up.status, !.body = ErrorJson("upstream_error")]

\* The last line of the QUERY and ReportState branches.
Unavailable(q, up) ==
    [q EXCEPT !.status = up.status, !.body = ErrorJson("upstream_unavailable")]

\* A branch that goes to the cached states whatever the upstream answered, for
\* comparison.
FallsBack_always(up) == TRUE

\* The QUERY / ReportState branch falls through to the offline fallback.
FallsBack(up) == ~Usable(up)

\* ------------------------------------------------------ google_assistant
\* SYNC: get_cached_sync and the `if cached:` that follows it.
google_sync_lookup(r) ==
    LET q == req[r]
        cached == get_cached_sync(UserId(q.dialect, q.principal))
    IN  /\ Ready
        /\ q.pc = "lookup" /\ q.dialect = "google"
        /\ cache_lock = 0
        /\ IF Truthy(cached)
           THEN Respond(r, Logged([q EXCEPT !.status = 200, !.body = cached,
                                            !.cached = TRUE, !.reads = @ + 1]))
           ELSE /\ req' = [req EXCEPT ![r] =
                             [q EXCEPT !.pc = "upstream", !.calls = @ + 1, !.reads = @ + 1]]
                /\ out' = Idle
        /\ UNCHANGED <<clock, rate_limits, sync_cache, query_cache, alexa_discovery_cache,
                       alexa_state_cache, cache_lock, recent, last_admit, stored, admin, heard>>

\* SYNC: the upstream answers; store, notify, log, return.
google_sync_reply(r, reply) ==
    LET q == req[r]
        up == proxy_to_upstream(reply)
        q1 == [q EXCEPT !.reply = reply]
    IN  /\ Ready
        /\ q.pc = "upstream" /\ q.dialect = "google"
        /\ Branch(q.dialect, q.intent) = "ENUM"
        /\ IF Usable(up)
           THEN /\ cache_lock = 0
                /\ sync_cache' =
                     cache_sync_response(UserId(q.dialect, q.principal), up.response)
                /\ stored' = Stored(UserId(q.dialect, q.principal), q.now)
                /\ call_webhook(r, [q1 EXCEPT !.status = 200, !.body = up.response,
                                              !.writes = @ + 1], TRUE)
           ELSE /\ Respond(r, Logged(UpstreamError(q1, up)))
                /\ UNCHANGED <<sync_cache, stored>>
        /\ heard' = Heard(q, reply, FALSE)
        /\ UNCHANGED <<clock, rate_limits, query_cache, alexa_discovery_cache,
                       alexa_state_cache, cache_lock, recent, last_admit, admin>>

\* QUERY: the upstream answers; cache the states and return the live response, or
\* fall back to the cached states, or return upstream_unavailable.
google_query_reply(r, reply) ==
    LET q == req[r]
        up == proxy_to_upstream(reply)
        q1 == [q EXCEPT !.reply = reply]
        resp_devices == up.response.devices
        cached_states == get_cached_states(q.devs)
    IN  /\ Ready
        /\ q.pc = "upstream" /\ q.dialect = "google"
        /\ Branch(q.dialect, q.intent) = "READ"
        /\ IF ~FallsBack(up)
           THEN /\ IF resp_devices # EmptyMap
                   THEN /\ cache_lock = 0
                        /\ query_cache' = cache_query_states(resp_devices)
                   ELSE UNCHANGED query_cache
                /\ Respond(r, Logged([q1 EXCEPT
                       !.status = 200, !.body = up.response,
                       !.writes = IF resp_devices # EmptyMap THEN @ + 1 ELSE @]))
           ELSE /\ cache_lock = 0
                /\ UNCHANGED query_cache
                /\ IF cached_states # EmptyMap
                   THEN call_webhook(r, Logged([q1 EXCEPT
                            !.status = 200, !.body = QueryJson(cached_states),
                            !.offline = TRUE, !.reads = @ + 1]), FALSE)
                   ELSE Respond(r, Unavailable([q1 EXCEPT !.reads = @ + 1], up))
        /\ heard' = Heard(q, reply, FallsBack(up) /\ cached_states # EmptyMap)
        /\ UNCHANGED <<clock, rate_limits, sync_cache, alexa_discovery_cache,
                       alexa_state_cache, cache_lock, recent, last_admit, stored, admin>>

\* QUERY, step by step: proxy_to_upstream returns a live answer with device
\* states; the handler has not yet entered cache_query_states.
google_query_receive(r, reply) ==
    LET q == req[r]
        up == proxy_to_upstream(reply)
    IN  /\ Ready
        /\ q.pc = "upstream" /\ q.dialect = "google"
        /\ Branch(q.dialect, q.intent) = "READ"
        /\ ~FallsBack(up)
        /\ up.response.devices # EmptyMap
        /\ req' = [req EXCEPT ![r] = [q EXCEPT !.pc = "store", !.reply = reply]]
        /\ out' = Idle
        /\ heard' = Heard(q, reply, FALSE)
        /\ UNCHANGED <<clock, rate_limits, sync_cache, query_cache, alexa_discovery_cache,
                       alexa_state_cache, cache_lock, recent, last_admit, stored, admin>>

\* QUERY, step by step: cache_query_states under cache_lock, log, return.
google_query_store(r) ==
    LET q == req[r]
        response == proxy_to_upstream(q.reply).response
    IN  /\ Ready
        /\ q.pc = "store" /\ q.dialect = "google"
        /\ cache_lock = 0
        /\ query_cache' = cache_query_states(response.devices)
        /\ Respond(r, Logged([q EXCEPT !.status = 200, !.body = response,
                                       !.writes = @ + 1]))
        /\ UNCHANGED <<clock, rate_limits, sync_cache, alexa_discovery_cache,
                       alexa_state_cache, cache_lock, recent, last_admit, stored, admin,
                       heard>>

\* cache_query_states, statement by statement: the handler enters the
\* `with cache_lock` block; the loop has every device of the response before it.
cache_query_states_enter(r) ==
    LET q == req[r]
        response == proxy_to_upstream(q.reply).response
    IN  /\ Ready
        /\ q.pc = "store" /\ q.dialect = "google"
        /\ cache_lock = 0
        /\ cache_lock' = Held(r, TRUE)
        /\ req' = [req EXCEPT ![r] = [q EXCEPT !.pc = "writing",
                                               !.todo = DOMAIN response.devices]]
        /\ out' = Idle
        /\ UNCHANGED <<clock, rate_limits, caches, recent, last_admit, stored, admin,
                       heard>>

\* cache_query_states, statement by statement: one round of the loop writes the
\* entry of one device.
cache_query_states_loop(r) ==
    LET q == req[r]
        response == proxy_to_upstream(q.reply).response
    IN  /\ Ready
        /\ q.pc = "writing" /\ q.todo # {}
        /\ \E d \in q.todo :
             /\ query_cache' = cache_query_states([x \in {d} |-> response.devices[x]])
             /\ req' = [req EXCEPT ![r] = [q EXCEPT !.todo = @ \ {d}]]
        /\ out' = Idle
        /\ UNCHANGED <<clock, rate_limits, sync_cache, alexa_discovery_cache,
                       alexa_state_cache, cache_lock, recent, last_admit, stored, admin,
                       heard>>

\* cache_query_states, statement by statement: the loop is over, the handler
\* leaves the `with cache_lock` block, logs and returns the live response.
cache_query_states_leave(r) ==
    LET q == req[r]
        response == proxy_to_upstream(q.reply).response
    IN  /\ Ready
        /\ q.pc = "writing" /\ q.todo = {}
        /\ cache_lock' = Held(r, FALSE)
        /\ Respond(r, Logged([q EXCEPT !.status = 200, !.body = response,
                                       !.writes = @ + 1]))
        /\ UNCHANGED <<clock, rate_limits, caches, recent, last_admit, stored, admin,
                       heard>>

\* EXECUTE: the upstream answers; notify when there is a response, log, return.
google_execute_reply(r, reply) ==
    LET q == req[r]
        up == proxy_to_upstream(reply)
        q1 == Forwarded([q EXCEPT !.reply = reply], up)
    IN  /\ Ready
        /\ q.pc = "upstream" /\ q.dialect = "google"
        /\ Branch(q.dialect, q.intent) = "EXEC"
        /\ IF Truthy(up.response)
           THEN call_webhook(r, q1, TRUE)
           ELSE Respond(r, Logged(q1))
        /\ heard' = Heard(q, reply, FALSE)
        /\ UNCHANGED <<clock, rate_limits, sync_cache, query_cache, alexa_discovery_cache,
                       alexa_state_cache, cache_lock, recent, last_admit, stored, admin>>

\* Unknown intent: proxied as it is.
google_unknown_reply(r, reply) ==
    LET q == req[r]
    IN  /\ Ready
        /\ q.pc = "upstream" /\ q.dialect = "google"
        /\ Branch(q.dialect, q.intent) = "OTHER"
        /\ Respond(r, Logged(Forwarded([q EXCEPT !.reply = reply],
                                       proxy_to_upstream(reply))))
        /\ heard' = Heard(q, reply, FALSE)
        /\ UNCHANGED <<clock, rate_limits, sync_cache, query_cache, alexa_discovery_cache,
                       alexa_state_cache, cache_lock, recent, last_admit, stored, admin>>

\* ------------------------------------------------------ alexa_smart_home
\* Discovery.Discover: the lookup under cache_lock and the early return on a hit.
alexa_discovery_lookup(r) ==
    LET q == req[r]
        user_id == UserId(q.dialect, q.principal)
    IN  /\ Ready
        /\ q.pc = "lookup" /\ q.dialect = "alexa"
        /\ cache_lock = 0
        /\ IF Fresh(alexa_discovery_cache, user_id)
           THEN Respond(r, Logged([q EXCEPT !.status = 200,
                                            !.body = get_cached_discovery(user_id),
                                            !.cached = TRUE, !.reads = @ + 1]))
           ELSE /\ req' = [req EXCEPT ![r] =
                             [q EXCEPT !.pc = "upstream", !.calls = @ + 1, !.reads = @ + 1]]
                /\ out' = Idle
        /\ cache_lock' = Held(r, FALSE)
        /\ UNCHANGED <<clock, rate_limits, sync_cache, query_cache, alexa_discovery_cache,
                       alexa_state_cache, recent, last_admit, stored, admin, heard>>

\* Discovery.Discover: the upstream answers; store, notify, log, return.
alexa_discovery_reply(r, reply) ==
    LET q == req[r]
        up == proxy_to_upstream(reply)
        q1 == [q EXCEPT !.reply = reply]
    IN  /\ Ready
        /\ q.pc = "upstream" /\ q.dialect = "alexa"
        /\ Branch(q.dialect, q.intent) = "ENUM"
        /\ IF Usable(up)
           THEN /\ cache_lock = 0
                /\ alexa_discovery_cache' =
                     cache_discovery_response(UserId(q.dialect, q.principal), up.response)
                /\ stored' = Stored(UserId(q.dialect, q.principal), q.now)
                /\ call_webhook(r, [q1 EXCEPT !.status = 200, !.body = up.response,
                                              !.writes = @ + 1], TRUE)
           ELSE /\ Respond(r, Logged(UpstreamError(q1, up)))
                /\ UNCHANGED <<alexa_discovery_cache, stored>>
        /\ heard' = Heard(q, reply, FALSE)
        /\ UNCHANGED <<clock, rate_limits, sync_cache, query_cache, alexa_state_cache,
                       cache_lock, recent, last_admit, admin>>

\* ReportState: the upstream answers; cache the properties and return the live
\* response, or build the fallback StateReport, log and notify inside the
\* `with cache_lock` block, or return upstream_unavailable.
alexa_report_reply(r, reply) ==
    LET q == req[r]
        endpoint_id == EndpointId(q)
        up == proxy_to_upstream(reply)
        q1 == [q EXCEPT !.reply = reply]
        properties == up.response.properties
    IN  /\ Ready
        /\ q.pc = "upstream" /\ q.dialect = "alexa"
        /\ Branch(q.dialect, q.intent) = "READ"
        /\ IF ~FallsBack(up)
           THEN /\ IF properties # ""
                   THEN /\ cache_lock = 0
                        /\ alexa_state_cache' =
                             cache_endpoint_state(endpoint_id, properties)
                   ELSE UNCHANGED alexa_state_cache
                /\ Respond(r, Logged([q1 EXCEPT
                       !.status = 200, !.body = up.response,
                       !.writes = IF properties # "" THEN @ + 1 ELSE @]))
                /\ UNCHANGED cache_lock
           ELSE /\ cache_lock = 0
                /\ UNCHANGED alexa_state_cache
                /\ IF endpoint_id \in DOMAIN alexa_state_cache
                   THEN /\ call_webhook(r, Logged([q1 EXCEPT
                              !.status = 200, !.offline = TRUE, !.reads = @ + 1,
                              !.body = fallback_response(endpoint_id)]), FALSE)
                        /\ cache_lock' = Held(r, environ.WEBHOOK_URL # "")
                   ELSE /\ Respond(r, Unavailable([q1 EXCEPT !.reads = @ + 1], up))
                        /\ UNCHANGED cache_lock
        /\ heard' = Heard(q, reply, FallsBack(up) /\ endpoint_id \in DOMAIN alexa_state_cache)
        /\ UNCHANGED <<clock, rate_limits, sync_cache, query_cache,
                       alexa_discovery_cache, recent, last_admit, stored, admin>>

\* ReportState, step by step: proxy_to_upstream returns a live answer with
\* properties; the handler has not yet taken cache_lock.
alexa_report_receive(r, reply) ==
    LET q == req[r]
        up == proxy_to_upstream(reply)
    IN  /\ Ready
        /\ q.pc = "upstream" /\ q.dialect = "alexa"
        /\ Branch(q.dialect, q.intent) = "READ"
        /\ ~FallsBack(up)
        /\ up.response.properties # ""
        /\ req' = [req EXCEPT ![r] = [q EXCEPT !.pc = "store", !.reply = reply]]
        /\ out' = Idle
        /\ heard' = Heard(q, reply, FALSE)
        /\ UNCHANGED <<clock, rate_limits, sync_cache, query_cache, alexa_discovery_cache,
                       alexa_state_cache, cache_lock, recent, last_admit, stored, admin>>

\* ReportState, step by step: the store under cache_lock, log, return.
alexa_report_store(r) ==
    LET q == req[r]
        response == proxy_to_upstream(q.reply).response
    IN  /\ Ready
        /\ q.pc = "store" /\ q.dialect = "alexa"
        /\ cache_lock = 0
        /\ alexa_state_cache' = cache_endpoint_state(EndpointId(q), response.properties)
        /\ Respond(r, Logged([q EXCEPT !.status = 200, !.body = response,
                                       !.writes = @ + 1]))
        /\ UNCHANGED <<clock, rate_limits, sync_cache, query_cache, alexa_discovery_cache,
                       cache_lock, recent, last_admit, stored, admin, heard>>

\* Every other directive: forwarded; controllers notify when there is a response.
alexa_other_reply(r, reply) ==
    LET q == req[r]
        up == proxy_to_upstream(reply)
        q1 == Forwarded([q EXCEPT !.reply = reply], up)
    IN  /\ Ready
        /\ q.pc = "upstream" /\ q.dialect = "alexa"
        /\ Branch(q.dialect, q.intent) = "OTHER"
        /\ IF Truthy(up.response) /\ EndsWithController(Namespace(q.intent))
           THEN call_webhook(r, q1, TRUE)
           ELSE Respond(r, Logged(q1))
        /\ heard' = Heard(q, reply, FALSE)
        /\ UNCHANGED <<clock, rate_limits, sync_cache, query_cache, alexa_discovery_cache,
                       alexa_state_cache, cache_lock, recent, last_admit, stored, admin>>

\* ------------------------------------------------------------- admin
\* Credentials a caller of an admin endpoint can present ("" is none).
Credentials == {"", "admin:secret", "admin:wrong"}

\* s.split(":", 1) of the strings that occur as AUTH or as credentials.
Split(s) ==
    CASE s = "admin:secret" -> <<"admin", "secret">>
      [] s = "admin:wrong" -> <<"admin", "wrong">>
      [] OTHER -> <<s>>

\* A check that lets every caller in, for comparison.
Authorized_anyone(auth) == TRUE

\* A check that lets in whoever presents any credentials, for comparison.
Authorized_present(auth) == auth # ""

\* The credential check of clear_cache and remote_ui_toggle: only when AUTH splits
\* into user and password is anything compared; "" is a request without
\* credentials.
Authorized(auth) ==
    LET expected_auth == Split(environ.AUTH)
    IN  Len(expected_auth) = 2 =>
            /\ auth # ""
            /\ Split(auth)[1] = expected_auth[1]
            /\ Split(auth)[2] = expected_auth[2]

\* The response of an admin endpoint, shown with what the caller presented (its
\* credentials, or its X-Original-Upgrade header).
Admin(endpoint, presented, status, body) ==
    [Idle EXCEPT !.pc = "done", !.dialect = "admin", !.intent = endpoint,
                 !.principal = presented, !.status = status, !.body = body]

\* POST /edge/cache/clear.
clear_cache(auth) ==
    /\ Ready
    /\ IF Authorized(auth)
       THEN /\ cache_lock = 0
            /\ sync_cache' = EmptyMap
            /\ query_cache' = EmptyMap
            /\ stored' = [k \in (DOMAIN stored) \ (DOMAIN sync_cache) |-> stored[k]]
            /\ out' = Admin("clear_cache", auth, 200,
                            [Blank EXCEPT !.tag = "cleared",
                                !.sync_cleared = Cardinality(DOMAIN sync_cache),
                                !.query_cleared = Cardinality(DOMAIN query_cache)])
            /\ heard' = [heard EXCEPT !.google = EmptyMap]
       ELSE /\ out' = Admin("clear_cache", auth, 401, ErrorJson("unauthorized"))
            /\ UNCHANGED <<sync_cache, query_cache, stored, heard>>
    /\ UNCHANGED <<clock, rate_limits, alexa_discovery_cache, alexa_state_cache,
                   cache_lock, req, recent, last_admit, admin>>

\* POST /edge/cache/clear, statement by statement: worker r passes the
\* credential check, enters the `with cache_lock` block, reads the two counts
\* and clears sync_cache.
clear_cache_enter(r, auth) ==
    /\ Ready
    /\ req[r].pc = "idle" /\ ui_req[r].pc = "idle"
    /\ Authorized(auth)
    /\ cache_lock = 0
    /\ cache_lock' = Held(r, TRUE)
    /\ sync_cache' = EmptyMap
    /\ stored' = [k \in (DOMAIN stored) \ (DOMAIN sync_cache) |-> stored[k]]
    /\ ui_req' = [ui_req EXCEPT ![r] =
                    [UiIdle EXCEPT !.pc = "clear", !.method = "POST", !.auth = auth,
                                   !.counts = <<Cardinality(DOMAIN sync_cache)>>]]
    /\ out' = Idle
    /\ UNCHANGED <<clock, rate_limits, query_cache, alexa_discovery_cache,
                   alexa_state_cache, req, recent, last_admit, environ,
                   remote_ui_settings, written, heard>>

\* Request q is a SYNC or QUERY whose upstream call has started and whose
\* result is not yet stored.
InFlight(q) ==
    /\ q.dialect = "google"
    /\ Branch(q.dialect, q.intent) \in {"ENUM", "READ"}
    /\ q.pc \in {"upstream", "store"}

\* POST /edge/cache/clear, statement by statement: worker r clears query_cache,
\* leaves the `with cache_lock` block and returns the counts. History: the
\* requests in flight at this moment are marked (preclear).
clear_cache_leave(r) ==
    /\ Ready
    /\ ui_req[r].pc = "clear"
    /\ query_cache' = EmptyMap
    /\ cache_lock' = Held(r, FALSE)
    /\ out' = Admin("clear_cache", ui_req[r].auth, 200,
                    [Blank EXCEPT !.tag = "cleared",
                        !.sync_cleared = ui_req[r].counts[1],
                        !.query_cleared = Cardinality(DOMAIN query_cache)])
    /\ ui_req' = [ui_req EXCEPT ![r] = UiIdle]
    /\ heard' = [heard EXCEPT !.google = EmptyMap]
    /\ req' = [w \in Req |-> IF InFlight(req[w])
                              THEN [req[w] EXCEPT !.preclear = TRUE] ELSE req[w]]
    /\ UNCHANGED <<clock, rate_limits, sync_cache, alexa_discovery_cache,
                   alexa_state_cache, recent, last_admit, stored, environ,
                   remote_ui_settings, written>>

\* GET /edge/stats: the counts read under cache_lock and rate_lock, and the
\* remote-UI flag.
edge_stats ==
    /\ Ready
    /\ cache_lock = 0
    /\ out' = Admin("edge_stats", "", 200,
                    [Blank EXCEPT !.tag = "stats",
                        !.sync_count = Cardinality(DOMAIN sync_cache),
                        !.query_count = Cardinality(DOMAIN query_cache),
                        !.active_ips = Cardinality(DOMAIN rate_limits),
                        !.enabled = remote_ui_settings.enabled])
    /\ UNCHANGED <<clock, rate_limits, sync_cache, query_cache, alexa_discovery_cache,
                   alexa_state_cache, cache_lock, req, recent, last_admit, stored, admin, heard>>

\* GET /edge/stats, statement by statement: worker r enters the
\* `with cache_lock` block and reads the two cache sizes.
edge_stats_enter(r) ==
    /\ Ready
    /\ req[r].pc = "idle" /\ ui_req[r].pc = "idle"
    /\ cache_lock = 0
    /\ cache_lock' = Held(r, TRUE)
    /\ ui_req' = [ui_req EXCEPT ![r] =
                    [UiIdle EXCEPT !.pc = "stats_cache", !.method = "GET",
                                   !.counts = <<Cardinality(DOMAIN sync_cache),
                                                Cardinality(DOMAIN query_cache)>>]]
    /\ out' = Idle
    /\ UNCHANGED <<clock, rate_limits, caches, req, recent, last_admit, stored,
                   environ, remote_ui_settings, written, heard>>

\* GET /edge/stats, statement by statement: worker r leaves the
\* `with cache_lock` block.
edge_stats_leave(r) ==
    /\ Ready
    /\ ui_req[r].pc = "stats_cache"
    /\ cache_lock' = Held(r, FALSE)
    /\ ui_req' = [ui_req EXCEPT ![r].pc = "stats_between"]
    /\ out' = Idle
    /\ UNCHANGED <<clock, rate_limits, caches, req, recent, last_admit, stored,
                   environ, remote_ui_settings, written, heard>>

\* GET /edge/stats, statement by statement: worker r enters the
\* `with rate_lock` block.
edge_stats_rate(r) ==
    /\ Ready
    /\ ui_req[r].pc = "stats_between"
    /\ rate_lock = 0
    /\ ui_req' = [ui_req EXCEPT ![r].pc = "stats_rate"]
    /\ out' = Idle
    /\ UNCHANGED <<clock, rate_limits, caches, cache_lock, req, recent, last_admit,
                   stored, environ, remote_ui_settings, written, heard>>

\* GET /edge/stats, statement by statement: worker r reads the number of
\* clients, leaves the `with rate_lock` block and returns the statistics.
edge_stats_return(r) ==
    /\ Ready
    /\ ui_req[r].pc = "stats_rate"
    /\ out' = Admin("edge_stats", "", 200,
                    [Blank EXCEPT !.tag = "stats",
                        !.sync_count = ui_req[r].counts[1],
                        !.query_count = ui_req[r].counts[2],
                        !.active_ips = Cardinality(DOMAIN rate_limits),
                        !.enabled = remote_ui_settings.enabled])
    /\ ui_req' = [ui_req EXCEPT ![r] = UiIdle]
    /\ UNCHANGED <<clock, rate_limits, caches, cache_lock, req, recent, last_admit,
                   stored, environ, remote_ui_settings, written, heard>>

\* What the other variables do in a step of /edge/remote-ui.
UiFrame ==
    UNCHANGED <<clock, rate_limits, sync_cache, query_cache, alexa_discovery_cache,
                alexa_state_cache, cache_lock, req, recent, last_admit, stored, environ,
                heard>>

\* GET /edge/remote-ui: the handler reads remote_ui_settings["enabled"].
remote_ui_get(r) ==
    /\ Ready
    /\ ui_req[r].pc = "idle"
    /\ ui_req' = [ui_req EXCEPT ![r] =
                    [UiIdle EXCEPT !.pc = "read", !.method = "GET",
                                   !.enabled = remote_ui_settings.enabled]]
    /\ out' = Idle
    /\ UNCHANGED <<remote_ui_settings, written>>
    /\ UiFrame

\* POST /edge/remote-ui: the credential check and the write of "enabled".
remote_ui_post(r, auth, enabled) ==
    /\ Ready
    /\ ui_req[r].pc = "idle"
    /\ IF Authorized(auth)
       THEN /\ remote_ui_settings' = [remote_ui_settings EXCEPT !.enabled = enabled]
            /\ ui_req' = [ui_req EXCEPT ![r] =
                            [UiIdle EXCEPT !.pc = "stamp", !.method = "POST",
                                           !.auth = auth, !.enabled = enabled]]
            /\ out' = Idle
       ELSE /\ out' = Admin("remote_ui_toggle", auth, 401, ErrorJson("unauthorized"))
            /\ UNCHANGED <<remote_ui_settings, ui_req>>
    /\ UNCHANGED written
    /\ UiFrame

\* POST /edge/remote-ui: the write of "updated_at". The clock never goes back,
\* so the pairs written with an earlier updated_at can no longer be returned and
\* are dropped from the history.
remote_ui_stamp(r) ==
    /\ Ready
    /\ ui_req[r].pc = "stamp"
    /\ remote_ui_settings' = [remote_ui_settings EXCEPT !.updated_at = clock]
    /\ written' = {p \in written : p[2] = clock} \cup {<<ui_req[r].enabled, clock>>}
    /\ ui_req' = [ui_req EXCEPT ![r].pc = "respond"]
    /\ out' = Idle
    /\ UiFrame

\* POST /edge/remote-ui: the response reads "enabled" back.
remote_ui_respond(r) ==
    /\ Ready
    /\ ui_req[r].pc = "respond"
    /\ ui_req' = [ui_req EXCEPT ![r].pc = "read",
                                ![r].enabled = remote_ui_settings.enabled]
    /\ out' = Idle
    /\ UNCHANGED <<remote_ui_settings, written>>
    /\ UiFrame

\* GET and POST /edge/remote-ui: the response reads "updated_at" and is returned.
remote_ui_return(r) ==
    /\ Ready
    /\ ui_req[r].pc = "read"
    /\ out' = Admin(IF ui_req[r].method = "GET" THEN "remote_ui_get" ELSE "remote_ui_toggle",
                    "", 200,
                    [Blank EXCEPT !.tag = "remote_ui", !.enabled = ui_req[r].enabled,
                                  !.updated_at = remote_ui_settings.updated_at])
    /\ ui_req' = [ui_req EXCEPT ![r] = UiIdle]
    /\ UNCHANGED <<remote_ui_settings, written>>
    /\ UiFrame

\* Values of the X-Original-Upgrade header ("" when absent).
Upgrades == {"", "websocket", "WebSocket", "h2c"}

\* A comparison that is case-sensitive, for comparison.
Lower_not(h) == h

\* str.lower() of those values.
Lower(h) == IF h = "WebSocket" THEN "websocket" ELSE h

\* GET /edge/remote-ui/check: 200 when access is allowed, 403 when denied.
remote_ui_check(upgrade) ==
    /\ Ready
    /\ out' = Admin("remote_ui_check", upgrade,
                    IF Lower(upgrade) = "websocket" THEN 200
                    ELSE IF remote_ui_settings.enabled THEN 200 ELSE 403,
                    Blank)
    /\ UNCHANGED <<clock, rate_limits, sync_cache, query_cache, alexa_discovery_cache,
                   alexa_state_cache, cache_lock, req, recent, last_admit, stored, admin, heard>>

\* ------------------------------------------------------- specifications
\* Replies of each outcome class, for the specifications that bound them: a
\* timeout, a connection failure, a body that is not JSON, another exception, a
\* falsy JSON body with status 200, and a JSON error message with status 500.
Failures ==
    ErrorReplies \cup
    {[kind |-> "json", status |-> 200, body |-> EmptyJson],
     [kind |-> "json", status |-> 500, body |-> MessageJson]}

Ok(body) == [kind |-> "json", status |-> 200, body |-> body]

\* Traffic of one dialect at a time: nothing of the other dialect is in flight or
\* cached when a request of dialect d starts.
Alone(d) ==
    /\ \A r \in Req : req[r].dialect \in {"", d}
    /\ d = "google" => alexa_discovery_cache = EmptyMap /\ alexa_state_cache = EmptyMap
    /\ d = "alexa" => sync_cache = EmptyMap /\ query_cache = EmptyMap

\* Enumerate requests only (SYNC and Discovery.Discover).
ArriveEnum(r) ==
    \E d \in {"google", "alexa"} :
        /\ Alone(d)
        /\ Arrive(r, d, IF d = "google" THEN "action.devices.SYNC"
                        ELSE "Alexa.Discovery/Discover", "ip1", "a", {}, TRUE)

EnumReplies == Failures \cup {Ok(SyncJson(p)) : p \in Payloads}

NextEnum ==
    \/ Tick
    \/ deliver
    \/ \E auth \in Credentials : clear_cache(auth)
    \/ \E r \in Req :
         \/ ArriveEnum(r)
         \/ google_sync_lookup(r)
         \/ \E reply \in EnumReplies : google_sync_reply(r, reply)
         \/ alexa_discovery_lookup(r)
         \/ \E reply \in EnumReplies : alexa_discovery_reply(r, reply)
         \/ \E outcome \in WebhookOutcomes : webhook_return(r, outcome)

SpecEnum == Init /\ [][NextEnum]_vars

\* ReadState requests only (QUERY and ReportState).
ArriveRead(r) ==
    \/ /\ Alone("google")
       /\ \E ds \in (SUBSET Devices) \ {{}} :
            Arrive(r, "google", "action.devices.QUERY", "ip1", "a", ds, TRUE)
    \/ /\ Alone("alexa")
       /\ \E e \in Devices :
            Arrive(r, "alexa", "Alexa/ReportState", "ip1", "a", {e}, TRUE)

NextRead ==
    \/ Tick
    \/ deliver
    \/ \E auth \in Credentials : clear_cache(auth)
    \/ \E r \in Req :
         \/ ArriveRead(r)
         \/ \E reply \in Failures \cup {Ok(QueryJson(m)) : m \in DeviceMaps} :
              google_query_reply(r, reply)
         \/ \E reply \in Failures \cup {Ok(ReportJson(p)) : p \in States \cup {""}} :
              alexa_report_reply(r, reply)
         \/ \E outcome \in WebhookOutcomes : webhook_return(r, outcome)

SpecRead == Init /\ [][NextRead]_vars

\* The rate limiter: requests from two client addresses, proxied as they are.
StartRate(r) ==
    \E ip \in IPs, v \in BOOLEAN :
        Start(r, "google", "unknown", ip, "a", {}, v)

NextRate ==
    \/ Tick
    \/ deliver
    \/ \E r \in Req :
         \/ StartRate(r)
         \/ rate_limit(r)
         \/ \E reply \in {Ok(ResultJson), [kind |-> "timeout", status |-> 0, body |-> None]} :
              google_unknown_reply(r, reply)

SpecRate == Init /\ [][NextRate]_vars

\* Commands next to the requests that fill the caches: Execute/Control and
\* unclassified requests of both dialects, for a caller and a device that
\* Enumerate and ReadState requests put into the caches.
ArriveExec(r) ==
    \E ip \in IPs :
        \/ \E i \in {"action.devices.EXECUTE", "unknown"} :
             Arrive(r, "google", i, ip, "a", {"D1"}, TRUE)
        \/ \E i \in {"Alexa.PowerController/TurnOn", "Alexa.Authorization/AcceptGrant"} :
             Arrive(r, "alexa", i, ip, "a", {"D1"}, TRUE)
        \/ \E d \in {"google", "alexa"} :
             /\ UserId(d, "a") \notin DOMAIN stored
             /\ Arrive(r, d, IF d = "google" THEN "action.devices.SYNC"
                            ELSE "Alexa.Discovery/Discover", ip, "a", {}, TRUE)
        \/ /\ query_cache = EmptyMap
           /\ Arrive(r, "google", "action.devices.QUERY", ip, "a", {"D1"}, TRUE)
        \/ /\ alexa_state_cache = EmptyMap
           /\ Arrive(r, "alexa", "Alexa/ReportState", ip, "a", {"D1"}, TRUE)

ExecReplies == Failures \cup {Ok(ResultJson)}

NextExec ==
    \/ deliver
    \/ \E r \in Req :
         \/ ArriveExec(r)
         \/ google_sync_lookup(r)
         \/ google_sync_reply(r, Ok(SyncJson("P1")))
         \/ google_query_reply(r, Ok(QueryJson([d \in {"D1"} |-> Live("on")])))
         \/ \E reply \in ExecReplies : google_execute_reply(r, reply)
         \/ \E reply \in ExecReplies : google_unknown_reply(r, reply)
         \/ alexa_discovery_lookup(r)
         \/ alexa_discovery_reply(r, Ok(SyncJson("P1")))
         \/ alexa_report_reply(r, Ok(ReportJson("on")))
         \/ \E reply \in ExecReplies : alexa_other_reply(r, reply)
         \/ \E outcome \in WebhookOutcomes : webhook_return(r, outcome)

SpecExec == Init /\ [][NextExec]_vars

\* Every branch of both handlers, with and without a webhook target: requests
\* of every kind for one caller and one device, valid or not, and every class
\* of upstream reply.
InitFulfil == \E url \in {"", WEBHOOK_URL} : Boot([Deployed EXCEPT !.WEBHOOK_URL = url])

ArriveFulfil(r) ==
    \E ip \in IPs, v \in BOOLEAN :
        \/ \E i \in GoogleIntents :
             Arrive(r, "google", i, ip, "a",
                    IF i = "action.devices.SYNC" THEN {} ELSE {"D1"}, v)
        \/ \E i \in AlexaDirectives :
             Arrive(r, "alexa", i, ip, "a",
                    IF i = "Alexa.Discovery/Discover" THEN {} ELSE {"D1"}, v)

NextFulfil ==
    \/ deliver
    \/ \E r \in Req :
         \/ ArriveFulfil(r)
         \/ google_sync_lookup(r)
         \/ \E reply \in Failures \cup {Ok(SyncJson("P1"))} : google_sync_reply(r, reply)
         \/ \E reply \in Failures \cup {Ok(QueryJson([d \in {"D1"} |-> Live("on")]))} :
              google_query_reply(r, reply)
         \/ \E reply \in ExecReplies : google_execute_reply(r, reply)
         \/ \E reply \in ExecReplies : google_unknown_reply(r, reply)
         \/ alexa_discovery_lookup(r)
         \/ \E reply \in Failures \cup {Ok(SyncJson("P1"))} : alexa_discovery_reply(r, reply)
         \/ \E reply \in Failures \cup {Ok(ReportJson("on"))} : alexa_report_reply(r, reply)
         \/ \E reply \in ExecReplies : alexa_other_reply(r, reply)
         \/ \E outcome \in WebhookOutcomes : webhook_return(r, outcome)

SpecFulfil == InitFulfil /\ [][NextFulfil]_vars

\* The admin endpoints next to requests that fill the caches of both dialects,
\* under every setting of AUTH (a user:pass pair, a value without a colon, none)
\* and of REMOTE_UI_ENABLED.
InitAdmin ==
    \E a \in {"", "token", AUTH}, e \in BOOLEAN :
        Boot([Deployed EXCEPT !.AUTH = a, !.REMOTE_UI_ENABLED = e])

ArriveAdmin(r) ==
    \E ip \in IPs :
        \/ Arrive(r, "google", "action.devices.SYNC", ip, "a", {}, TRUE)
        \/ Arrive(r, "google", "action.devices.QUERY", ip, "a", {"D1"}, TRUE)
        \/ Arrive(r, "alexa", "Alexa.Discovery/Discover", ip, "a", {}, TRUE)
        \/ Arrive(r, "alexa", "Alexa/ReportState", ip, "a", {"D1"}, TRUE)

NextAdmin ==
    \/ deliver
    \/ edge_stats
    \/ \E auth \in Credentials : clear_cache(auth)
    \/ \E r \in Req :
         \/ ArriveAdmin(r)
         \/ google_sync_lookup(r)
         \/ google_sync_reply(r, Ok(SyncJson("P1")))
         \/ google_query_reply(r, Ok(QueryJson([d \in {"D1"} |-> Live("on")])))
         \/ alexa_discovery_lookup(r)
         \/ alexa_discovery_reply(r, Ok(SyncJson("P1")))
         \/ alexa_report_reply(r, Ok(ReportJson("on")))
         \/ \E outcome \in WebhookOutcomes : webhook_return(r, outcome)

SpecAdmin == InitAdmin /\ [][NextAdmin]_vars

\* The remote-access endpoints, two workers interleaving statement by statement,
\* next to the other endpoints (stats, cache clear, one fulfillment request).
InitRemote ==
    \E a \in {"", AUTH}, e \in BOOLEAN :
        Boot([Deployed EXCEPT !.AUTH = a, !.REMOTE_UI_ENABLED = e, !.WEBHOOK_URL = ""])

ArriveRemote(r) ==
    /\ r = 1
    /\ clock = 0
    /\ Arrive(r, "google", "action.devices.EXECUTE", "ip1", "a", {"D1"}, TRUE)

NextRemote ==
    \/ Tick
    \/ deliver
    \/ edge_stats
    \/ \E auth \in Credentials : clear_cache(auth)
    \/ \E upgrade \in Upgrades : remote_ui_check(upgrade)
    \/ \E r \in Req :
         \/ remote_ui_get(r)
         \/ \E auth \in Credentials, enabled \in BOOLEAN : remote_ui_post(r, auth, enabled)
         \/ remote_ui_stamp(r)
         \/ remote_ui_respond(r)
         \/ remote_ui_return(r)
         \/ ArriveRemote(r)
         \/ google_execute_reply(r, Ok(ResultJson))

SpecRemote == InitRemote /\ [][NextRemote]_vars

\* Rejections next to the work of admitted requests: Enumerate and ReadState
\* requests of both dialects from two client addresses, each taking rate_lock in
\* a step of its own, while other requests are in the upstream call, in the
\* webhook POST or inside the `with cache_lock` block of the Alexa fallback.
StartReject(r) ==
    \E ip \in IPs :
        \/ Start(r, "google", "action.devices.SYNC", ip, "a", {}, TRUE)
        \/ Start(r, "google", "action.devices.QUERY", ip, "a", {"D1"}, TRUE)
        \/ Start(r, "alexa", "Alexa.Discovery/Discover", ip, "a", {}, TRUE)
        \/ Start(r, "alexa", "Alexa/ReportState", ip, "a", {"D1"}, TRUE)

Timeout == [kind |-> "timeout", status |-> 0, body |-> None]

NextReject ==
    \/ deliver
    \/ \E r \in Req :
         \/ StartReject(r)
         \/ rate_limit(r)
         \/ google_sync_lookup(r)
         \/ google_sync_reply(r, Ok(SyncJson("P1")))
         \/ \E reply \in {Timeout, Ok(QueryJson([d \in {"D1"} |-> Live("on")]))} :
              google_query_reply(r, reply)
         \/ alexa_discovery_lookup(r)
         \/ alexa_discovery_reply(r, Ok(SyncJson("P1")))
         \/ \E reply \in {Timeout, Ok(ReportJson("on"))} : alexa_report_reply(r, reply)
         \/ \E outcome \in WebhookOutcomes : webhook_return(r, outcome)

SpecReject == Init /\ [][NextReject]_vars

\* Concurrent ReadState requests that succeed: the upstream's answer and the
\* cache write of a request are separate steps, so that the writes of two
\* requests can come in the other order than their reads.
ArriveRace(r) ==
    \E ip \in IPs :
        \/ \E ds \in (SUBSET Devices) \ {{}} :
             Arrive(r, "google", "action.devices.QUERY", ip, "a", ds, TRUE)
        \/ Arrive(r, "alexa", "Alexa/ReportState", ip, "a", {"D1"}, TRUE)

NextRace ==
    \/ deliver
    \/ \E r \in Req :
         \/ ArriveRace(r)
         \/ \E m \in DeviceMaps : google_query_receive(r, Ok(QueryJson(m)))
         \/ google_query_store(r)
         \/ \E p \in States : alexa_report_receive(r, Ok(ReportJson(p)))
         \/ alexa_report_store(r)

SpecRace == Init /\ [][NextRace]_vars

\* The life of state-cache entries: ReadState requests of both dialects for one
\* or two devices, answered with states for any of them under status 200 or
\* status 500 or not at all, next to the passage of time and cache clears; no
\* webhook target.
InitState == Boot([Deployed EXCEPT !.WEBHOOK_URL = ""])

ArriveState(r) ==
    /\ r = 1
    /\ \/ \E ds \in {{"D1"}, {"D1", "D2"}} :
            Arrive(r, "google", "action.devices.QUERY", "ip1", "a", ds, TRUE)
       \/ Arrive(r, "alexa", "Alexa/ReportState", "ip1", "a", {"D1"}, TRUE)

\* QUERY responses in which D1 is on or off and D2, when present, is on.
StateMaps == {m \in DeviceMaps : "D2" \in DOMAIN m => m["D2"].state = "on"}

NextState ==
    \/ Tick
    \/ deliver
    \/ \E auth \in Credentials : clear_cache(auth)
    \/ \E r \in Req :
         \/ ArriveState(r)
         \/ \E reply \in {Timeout} \cup JsonReplies({QueryJson(m) : m \in StateMaps}) :
              google_query_reply(r, reply)
         \/ \E reply \in {Timeout} \cup JsonReplies({ReportJson(p) : p \in States}) :
              alexa_report_reply(r, reply)

SpecState == InitState /\ [][NextState]_vars

\* Readers next to a cache clear and a bulk state write that take their
\* statements one at a time: SYNC and QUERY requests of one user, the upstream
\* answering or timing out, the statistics read, and the clear on a worker
\* that serves no other request meanwhile.
ArriveAtomic(r) ==
    /\ ui_req[r].pc = "idle"
    /\ \E ip \in IPs :
         \/ Arrive(r, "google", "action.devices.SYNC", ip, "a", {}, TRUE)
         \/ Arrive(r, "google", "action.devices.QUERY", ip, "a", {"D1", "D2"}, TRUE)

\* QUERY responses with the states of both devices.
BothMaps == {m \in StateMaps : DOMAIN m = {"D1", "D2"}}

NextAtomic ==
    \/ deliver
    \/ edge_stats
    \/ \E r \in Req :
         \/ ArriveAtomic(r)
         \/ google_sync_lookup(r)
         \/ google_sync_reply(r, Ok(SyncJson("P1")))
         \/ \E m \in BothMaps : google_query_receive(r, Ok(QueryJson(m)))
         \/ google_query_reply(r, Timeout)
         \/ cache_query_states_enter(r)
         \/ cache_query_states_loop(r)
         \/ cache_query_states_leave(r)
         \/ clear_cache_enter(r, AUTH)
         \/ clear_cache_leave(r)

SpecAtomic == InitState /\ [][NextAtomic]_vars

\* The two locks, statement by statement: requests of every kind pass the
\* decorator's `with rate_lock` block, the Alexa fallback holds cache_lock over
\* its webhook, and statistics reads and cache clears run on workers that serve
\* no other request meanwhile.
StartLocks(r) ==
    /\ ui_req[r].pc = "idle"
    /\ \E ip \in IPs :
         \/ Start(r, "google", "action.devices.QUERY", ip, "a", {"D1"}, TRUE)
         \/ Start(r, "alexa", "Alexa.Discovery/Discover", ip, "a", {}, TRUE)
         \/ Start(r, "alexa", "Alexa/ReportState", ip, "a", {"D1"}, TRUE)

\* The next step of the request worker r has under way.
WorkerLocks(r) ==
    \/ rate_lock_enter(r)
    \/ rate_lock_leave(r)
    \/ \E reply \in {Timeout, Ok(QueryJson([d \in {"D1"} |-> Live("on")]))} :
         google_query_reply(r, reply)
    \/ alexa_discovery_lookup(r)
    \/ alexa_discovery_reply(r, Ok(SyncJson("P1")))
    \/ \E reply \in {Timeout, Ok(ReportJson("on"))} : alexa_report_reply(r, reply)
    \/ webhook_return(r, "sent")
    \/ edge_stats_leave(r)
    \/ edge_stats_rate(r)
    \/ edge_stats_return(r)
    \/ clear_cache_leave(r)

\* The steps of requests that are under way.
StepLocks ==
    \/ deliver
    \/ \E r \in Req : WorkerLocks(r)

NextLocks ==
    \/ StepLocks
    \/ \E r \in Req :
         \/ StartLocks(r)
         \/ edge_stats_enter(r)
         \/ clear_cache_enter(r, AUTH)

SpecLocks == Init /\ [][NextLocks]_vars

\* The same under a fair scheduler: a response computed is delivered, and a
\* worker whose request can take its next step again and again (the lock it
\* waits for is free again and again; requests.post returns or times out)
\* takes it.
FairLocks ==
    /\ WF_vars(deliver)
    /\ \A r \in Req : SF_vars(WorkerLocks(r))

SpecLive == SpecLocks /\ FairLocks

\* Enumerate requests of three callers (a, b and one that names no user) in
\* both dialects from either address; the upstream answers each with a payload
\* made for that dialect and caller, in one of two versions, or not at all.
Versions == {"1", "2"}

Owned(dialect, principal, v) == dialect \o ":" \o principal \o ":" \o v

ArriveIsolate(r) ==
    \E d \in {"google", "alexa"}, ip \in IPs, p \in Principals \cup {""} :
        Arrive(r, d, IF d = "google" THEN "action.devices.SYNC"
                     ELSE "Alexa.Discovery/Discover", ip, p, {}, TRUE)

RepliesTo(q) ==
    {Timeout} \cup {Ok(SyncJson(Owned(q.dialect, q.principal, v))) : v \in Versions}

NextIsolate ==
    \/ deliver
    \/ \E r \in Req :
         \/ ArriveIsolate(r)
         \/ google_sync_lookup(r)
         \/ \E reply \in RepliesTo(req[r]) : google_sync_reply(r, reply)
         \/ alexa_discovery_lookup(r)
         \/ \E reply \in RepliesTo(req[r]) : alexa_discovery_reply(r, reply)

SpecIsolate == InitState /\ [][NextIsolate]_vars

\* -------------------------------------------------------------- properties
\* The number of requests of ip admitted with a timestamp inside the current
\* window.
RECURSIVE CountFrom(_, _)
CountFrom(ip, t) == IF t > MaxTime THEN 0 ELSE recent[ip][t] + CountFrom(ip, t + 1)
AdmittedInWindow(ip) == CountFrom(ip, 0)

\* Worker r takes its rate-limiter step.
Decides(r) == req[r].pc = "rate" /\ req'[r].pc # "rate"

\* The step of worker r rejects its request with the rate-limit error.
Rejects(r) ==
    /\ req'[r] = Idle
    /\ out'.pc = "done" /\ out'.ip = req[r].ip
    /\ out'.status = 429
    /\ out'.body.error = "rate_limit_exceeded"
    /\ out'.body.retry_after = RATE_LIMIT_WINDOW
    /\ out'.calls = 0

\* The step of worker r admits its request: its timestamp is recorded and the
\* handler runs.
Admits(r) ==
    /\ out'.status # 429
    /\ rate_limits'[req[r].ip] # <<>>
    /\ rate_limits'[req[r].ip][Len(rate_limits'[req[r].ip])] = req[r].now
    /\ IF req[r].valid THEN req'[r].pc = "upstream" ELSE out'.status = 400

\* C1: for every client ip, once RATE_LIMIT_REQUESTS requests of that client have
\* been admitted with timestamps inside the current window, the next request of
\* that client is rejected with status 429, error rate_limit_exceeded and
\* retry_after = RATE_LIMIT_WINDOW; and a request of a client whose latest
\* admitted request lies a full window or more before it (or that has none) is
\* admitted.
C1_RateLimit ==
    [][\A r \in Req : Decides(r) =>
          /\ AdmittedInWindow(req[r].ip) >= RATE_LIMIT_REQUESTS => Rejects(r)
          /\ (\/ last_admit[req[r].ip] = -1
              \/ req[r].now - last_admit[req[r].ip] >= RATE_LIMIT_WINDOW) => Admits(r)]_vars

\* A request has just been rejected while the ceiling of admitted requests of its
\* client lies inside the current window.
C1_Witness ==
    /\ out.pc = "done" /\ out.status = 429
    /\ out.body.retry_after = RATE_LIMIT_WINDOW
    /\ AdmittedInWindow(out.ip) >= RATE_LIMIT_REQUESTS

\* The enumeration cache a request of dialect d uses.
EnumCache(d) == IF d = "google" THEN sync_cache ELSE alexa_discovery_cache

\* The TTL of that cache.
Ttl(d) == IF d = "google" THEN SYNC_CACHE_TTL ELSE ALEXA_DISCOVERY_TTL

\* Worker r takes its enumeration-cache lookup step.
LooksUp(r) == req[r].pc = "lookup" /\ req'[r].pc # "lookup"

\* The lookup step of worker r answers from the entry of its caller.
ServedFromCache(r) ==
    /\ req'[r] = Idle
    /\ out'.pc = "done" /\ out'.cached
    /\ out'.status = 200
    /\ out'.body = EnumCache(req[r].dialect)[UserId(req[r].dialect, req[r].principal)].response
    /\ out'.calls = 0

\* The lookup step of worker r goes on to the upstream call.
GoesUpstream(r) ==
    /\ req'[r].pc = "upstream" /\ req'[r].calls = 1
    /\ out' = Idle

\* C2: an Enumerate request (SYNC, Discovery.Discover) that reads the cache
\* while the entry stored for its caller by an earlier successful Enumerate is
\* within its TTL is answered from the cache with exactly the stored payload,
\* and makes no upstream call.
C2_EnumerateHit ==
    [][\A r \in Req : LooksUp(r) =>
          LET uid == UserId(req[r].dialect, req[r].principal)
              cache == EnumCache(req[r].dialect)
          IN  (/\ uid \in DOMAIN cache
               /\ uid \in DOMAIN stored
               /\ clock < stored[uid].at + Ttl(req[r].dialect)) => ServedFromCache(r)]_vars

\* An Enumerate request has just been answered from the cache with the stored
\* payload and without an upstream call.
C2_Witness ==
    /\ out.pc = "done" /\ out.cached /\ out.calls = 0
    /\ Branch(out.dialect, out.intent) = "ENUM"
    /\ LET uid == UserId(out.dialect, out.principal)
       IN  /\ uid \in DOMAIN EnumCache(out.dialect)
           /\ out.body = EnumCache(out.dialect)[uid].response
           /\ out.body.tag = "sync"

\* C3 as stated: an entry is returned only while now < expires_at, and an
\* Enumerate call arriving more than TTL after the arrival of the call that
\* filled the cache is not served from the cache and calls upstream.
C3_AsStated ==
    [][\A r \in Req : LooksUp(r) =>
          LET uid == UserId(req[r].dialect, req[r].principal)
              cache == EnumCache(req[r].dialect)
          IN  /\ out'.cached => uid \in DOMAIN cache /\ clock < cache[uid].expires_at
              /\ (/\ uid \in DOMAIN stored
                  /\ req[r].now > stored[uid].asked + Ttl(req[r].dialect)) => GoesUpstream(r)]_vars

\* C3, amended: an entry is returned only while now < expires_at, and an
\* Enumerate call arriving TTL or more after the entry now in the cache was
\* stored is not served from the cache and calls upstream.
C3_Freshness ==
    [][\A r \in Req : LooksUp(r) =>
          LET uid == UserId(req[r].dialect, req[r].principal)
              cache == EnumCache(req[r].dialect)
          IN  /\ out'.cached => uid \in DOMAIN cache /\ clock < cache[uid].expires_at
              /\ (/\ uid \in DOMAIN stored
                  /\ req[r].now >= stored[uid].at + Ttl(req[r].dialect)) => GoesUpstream(r)]_vars

\* An Enumerate request that arrived when the entry of its caller had expired
\* has gone on to the upstream call; the expired entry is still in the cache.
C3_Witness ==
    \E r \in Req :
        LET uid == UserId(req[r].dialect, req[r].principal)
        IN  /\ req[r].pc = "upstream" /\ Branch(req[r].dialect, req[r].intent) = "ENUM"
            /\ uid \in DOMAIN EnumCache(req[r].dialect)
            /\ uid \in DOMAIN stored
            /\ req[r].now >= stored[uid].at + Ttl(req[r].dialect)
            /\ req[r].now >= EnumCache(req[r].dialect)[uid].expires_at

\* The state cache a request of dialect d uses.
StateCache(d) == IF d = "google" THEN query_cache ELSE alexa_state_cache

\* The requested ids that have a state-cache entry.
Known(q) == q.devs \cap DOMAIN StateCache(q.dialect)

\* Worker r takes the step in which its upstream call returns.
Answers(r) == req[r].pc = "upstream" /\ req'[r].pc # "upstream"

\* Worker r handles a ReadState request (QUERY, ReportState).
Reads(r) ==
    \/ req[r].dialect = "google" /\ req[r].intent = "action.devices.QUERY"
    \/ req[r].dialect = "alexa" /\ req[r].intent = "Alexa/ReportState"

\* Worker r handles an Enumerate request (SYNC, Discovery.Discover).
Enumerates(r) ==
    \/ req[r].dialect = "google" /\ req[r].intent = "action.devices.SYNC"
    \/ req[r].dialect = "alexa" /\ req[r].intent = "Alexa.Discovery/Discover"

Is2xx(status) == status >= 200 /\ status <= 299

\* The staleness marker a response body carries for id: in a QUERY response the
\* _cached and _cached_at keys of the device's state, in a StateReport nothing
\* (it holds the properties list and no other key of the entry).
Marker(body, id) ==
    IF body.tag = "query" /\ id \in DOMAIN body.devices
    THEN [cached |-> body.devices[id]._cached, at |-> body.devices[id]._cached_at]
    ELSE [cached |-> FALSE, at |-> -1]

\* The state a response body gives for id.
StateOf(body, id) ==
    IF body.tag = "query"
    THEN IF id \in DOMAIN body.devices THEN body.devices[id].state ELSE ""
    ELSE body.properties

\* The ids a response body gives a state for, among the ids a request names.
IdsOf(body, ids) ==
    IF body.tag = "query" THEN DOMAIN body.devices
    ELSE IF body.tag = "report" THEN ids ELSE {}

\* The state and time of the state-cache entry of id.
EntryState(d, id) ==
    IF d = "google" THEN query_cache[id].state.state ELSE alexa_state_cache[id].properties
EntryTime(d, id) == StateCache(d)[id].updated_at

\* C4: when the upstream call of a ReadState request ends in a timeout or a
\* connection failure and at least one requested id has a state-cache entry,
\* the response has status 200 and a fallback body holding exactly the requested
\* ids that have an entry, each with its stored state, marked as cached and
\* carrying the updated_at of the entry; the state cache stays as it is.
C4_OfflineFallback ==
    [][\A r \in Req :
          (/\ Answers(r) /\ Reads(r)
           /\ out'.reply.kind \in {"timeout", "connerr"}
           /\ Known(req[r]) # {})
          => /\ out'.status = 200
             /\ IdsOf(out'.body, req[r].devs) = Known(req[r])
             /\ \A id \in Known(req[r]) :
                   /\ StateOf(out'.body, id) = EntryState(req[r].dialect, id)
                   /\ Marker(out'.body, id).cached
                   /\ Marker(out'.body, id).at = EntryTime(req[r].dialect, id)
             /\ UNCHANGED <<query_cache, alexa_state_cache>>]_vars

\* C5: a ReadState request that gets no usable live answer from upstream while
\* none of its ids has a state-cache entry is answered upstream_unavailable with
\* the status of the upstream failure, never with a 2xx status.
C5_NoFallback ==
    [][\A r \in Req :
          (/\ Answers(r) /\ Reads(r)
           /\ ~Usable(proxy_to_upstream(out'.reply))
           /\ Known(req[r]) = {})
          => /\ out'.body = ErrorJson("upstream_unavailable")
             /\ out'.status = proxy_to_upstream(out'.reply).status
             /\ ~Is2xx(out'.status)]_vars

\* C6: a ReadState request whose upstream call ends in a failure other than a
\* timeout or a connection failure (a body that is not JSON, a non-2xx status
\* with a body) is never answered from the state cache and gets an error.
C6_OnlyOutageFallsBack ==
    [][\A r \in Req :
          (/\ Answers(r) /\ Reads(r)
           /\ \/ out'.reply.kind = "badjson"
              \/ /\ out'.reply.kind = "json"
                 /\ ~Is2xx(out'.reply.status)
                 /\ Truthy(out'.reply.body))
          => /\ ~out'.offline
             /\ out'.body.tag = "error"
             /\ ~Is2xx(out'.status)]_vars

\* Worker r handles an Execute/Control or unclassified request.
IsCommand(q) ==
    \/ q.dialect = "google" /\ q.intent \in {"action.devices.EXECUTE", "unknown"}
    \/ q.dialect = "alexa"
       /\ q.intent \in {"Alexa.PowerController/TurnOn", "Alexa.Authorization/AcceptGrant"}

\* C7: an admitted Execute/Control or unclassified request of either dialect
\* calls upstream, whatever upstream answers, and no step of it reads or
\* changes the enumeration caches or the state caches.
C7_CommandsBypassCaches ==
    [][\A r \in Req :
          /\ (IsCommand(req'[r]) /\ req'[r].pc \in {"lookup", "upstream", "webhook"})
             => req'[r].calls = 1 /\ req'[r].reads = 0 /\ req'[r].writes = 0
          /\ ((IsCommand(req[r]) \/ IsCommand(req'[r])) /\ req'[r] # req[r])
             => /\ UNCHANGED caches
                /\ (out'.pc # "idle" /\ out'.status # 429)
                   => out'.calls = 1 /\ out'.reads = 0 /\ out'.writes = 0]_vars

\* A command has been answered for a caller and a device that both have cache
\* entries: upstream was called, no cache read or written.
C7_Witness ==
    /\ out.pc \in {"done", "computed"} /\ IsCommand(out)
    /\ out.calls = 1 /\ out.reads = 0 /\ out.writes = 0
    /\ UserId(out.dialect, out.principal) \in DOMAIN EnumCache(out.dialect)
    /\ out.devs # {} /\ out.devs \subseteq DOMAIN StateCache(out.dialect)

\* C8: after a ReadState whose upstream call succeeds (status 200, a non-empty
\* JSON body), the state cache holds for every device or endpoint of the
\* response the new state, with an updated_at (the current time) not earlier
\* than that of the entry it replaces, and the caller gets the live response.
C8_SuccessWritesCache ==
    [][\A r \in Req :
          (/\ Answers(r) /\ Reads(r)
           /\ out'.reply.kind = "json" /\ out'.reply.status = 200
           /\ Truthy(out'.reply.body))
          => /\ out'.pc = "done" /\ out'.status = 200
             /\ out'.body = out'.reply.body
             /\ ~out'.offline
             /\ IF req[r].dialect = "google"
                THEN \A id \in DOMAIN out'.reply.body.devices :
                        /\ id \in DOMAIN query_cache'
                        /\ query_cache'[id].state = out'.reply.body.devices[id]
                        /\ query_cache'[id].updated_at = clock
                        /\ id \in DOMAIN query_cache
                           => query_cache'[id].updated_at >= query_cache[id].updated_at
                ELSE out'.reply.body.properties # "" =>
                        \A id \in req[r].devs :
                           /\ id \in DOMAIN alexa_state_cache'
                           /\ alexa_state_cache'[id].properties = out'.reply.body.properties
                           /\ alexa_state_cache'[id].updated_at = clock
                           /\ id \in DOMAIN alexa_state_cache
                              => alexa_state_cache'[id].updated_at
                                   >= alexa_state_cache[id].updated_at]_vars

\* A successful QUERY has just written the new state of a device into the
\* state cache, stamped with the current time, and returned the live response.
C8_Witness ==
    /\ out.pc = "done" /\ out.intent = "action.devices.QUERY"
    /\ out.reply.kind = "json" /\ out.reply.status = 200
    /\ out.body = out.reply.body
    /\ out.writes = 1 /\ clock > 0
    /\ \E id \in DOMAIN out.body.devices :
         /\ id \in DOMAIN query_cache
         /\ query_cache[id] = [state |-> out.body.devices[id], updated_at |-> clock]

\* C9: an admitted ReadState request calls upstream before it looks at the
\* state cache: while it waits for upstream it has made its one upstream call
\* and no cache read, and it reads the state cache only in the step in which
\* upstream has returned without an answer the handler can use (an error, or
\* an empty body).
C9_UpstreamFirst ==
    [][\A r \in Req :
          /\ (Reads(r) /\ req[r].pc = "upstream")
             => req[r].calls = 1 /\ req[r].reads = 0
          /\ (Answers(r) /\ Reads(r) /\ out'.reads > 0)
             => /\ out'.calls = 1
                /\ \/ out'.reply.kind # "json"
                   \/ ~Truthy(out'.reply.body)]_vars

\* A ReadState request has read the state cache after its upstream call timed
\* out or found no connection.
C9_Witness ==
    /\ out.pc \in {"done", "computed"}
    /\ out.intent \in {"action.devices.QUERY", "Alexa/ReportState"}
    /\ out.reply.kind \in {"timeout", "connerr"}
    /\ out.calls = 1 /\ out.reads = 1

\* C10: when an Enumerate request has missed the cache and its upstream call
\* fails (an error, or a non-2xx status), the caller gets an upstream error
\* with a non-2xx status, no enumeration payload, and the enumeration caches
\* stay as they are.
C10_EnumerateNoFallback ==
    [][\A r \in Req :
          (/\ Answers(r) /\ Enumerates(r)
           /\ \/ out'.reply.kind # "json"
              \/ ~Is2xx(out'.reply.status))
          => /\ out'.body = ErrorJson("upstream_error")
             /\ ~Is2xx(out'.status)
             /\ UNCHANGED <<sync_cache, alexa_discovery_cache>>]_vars

\* The response shown is the final response to a fulfillment request that was
\* admitted and parsed, whichever branch it took.
Handled ==
    /\ out.pc \in {"done", "returned"}
    /\ out.dialect \in {"google", "alexa"}
    /\ out.body.error \notin {"rate_limit_exceeded", "invalid_request"}

\* C11: every handled fulfillment request has emitted exactly one audit record
\* when it returns, whichever branch it took, in both dialects.
C11_OneAuditRecord == Handled => out.audits = 1

\* C12: no fulfillment request makes more than one event-notification call,
\* whichever branch it takes, in both dialects.
C12_AtMostOneEvent ==
    /\ out.hooks <= 1
    /\ \A r \in Req : req[r].hooks <= 1

\* A request has returned after its one event-notification call.
C12_Witness == out.pc = "returned" /\ out.hooks = 1 /\ out.status = 200

\* C13: no request is in the event-notification dispatch while it holds
\* cache_lock (rate_lock is never held outside the limiter's own step).
C13_NotifyOutsideLocks == \A r \in Req : req[r].pc = "webhook" => cache_lock # r

\* C14: no request waits for the upstream call while it holds cache_lock
\* (rate_lock is never held outside the limiter's own step), so a request
\* waiting for upstream keeps no other request from the locks.
C14_UpstreamOutsideLocks == \A r \in Req : req[r].pc = "upstream" => cache_lock # r

\* While one request waits for upstream, another has just been served by a
\* cache lookup under cache_lock, and the lock is free again.
C14_Witness ==
    /\ \E r \in Req : req[r].pc = "upstream" /\ req[r].dialect = "alexa"
    /\ out.pc = "done" /\ out.cached /\ out.dialect = "alexa"
    /\ cache_lock = 0

\* C20: the event notification does not affect the request: however the
\* dispatch ends (sent, timed out, failed), the handler returns the status and
\* body it had computed before the dispatch and the dispatch changes no cache;
\* and with no webhook target the handler returns without dispatching.
C20_NotifierNeverAffects ==
    [][\A r \in Req :
          /\ (req[r].pc # "webhook" /\ req'[r].pc = "webhook")
             => /\ environ.WEBHOOK_URL # ""
                /\ out'.pc = "computed"
                /\ req'[r].status = out'.status /\ req'[r].body = out'.body
          /\ (req[r].pc = "webhook" /\ req'[r].pc # "webhook")
             => /\ out'.pc = "returned"
                /\ out'.status = req[r].status /\ out'.body = req[r].body
                /\ UNCHANGED caches
          /\ (environ.WEBHOOK_URL = "" /\ out'.pc # "idle") => out'.hooks = 0]_vars

\* A request has returned, after the dispatch, the response it had computed.
C20_Witness ==
    /\ out.pc = "returned" /\ out.hooks = 1
    /\ out.status = 200 /\ Truthy(out.body)
    /\ environ.WEBHOOK_URL # ""

\* An accepted cache clear has just happened.
Clears == out.pc = "idle" /\ out'.intent = "clear_cache" /\ out'.status = 200

\* The cleared count an accepted clear reports.
ClearedCount == out'.body.sync_cleared + out'.body.query_cleared

\* The enumeration caches and the state caches, of both dialects, hold nothing.
NothingCached ==
    /\ sync_cache = EmptyMap /\ query_cache = EmptyMap
    /\ alexa_discovery_cache = EmptyMap /\ alexa_state_cache = EmptyMap

\* C15: an accepted clear of non-empty caches reports a nonzero count and
\* leaves the enumeration cache and the state cache empty, so that a second
\* clear right after it (which finds them empty) reports zero and leaves them
\* empty too.
C15_ClearIdempotent ==
    [][Clears => /\ (~NothingCached => ClearedCount > 0)
                 /\ (NothingCached => ClearedCount = 0)
                 /\ NothingCached']_vars

\* C16: an accepted clear wipes the cached data of both dialects; no
\* enumeration entry and no device state of either dialect survives it.
C16_ClearsBothDialects ==
    [][Clears => /\ sync_cache' = EmptyMap /\ alexa_discovery_cache' = EmptyMap
                 /\ query_cache' = EmptyMap /\ alexa_state_cache' = EmptyMap]_vars

\* AUTH holds a user:password pair.
PairConfigured == Len(Split(environ.AUTH)) = 2

\* C17: with a credential pair configured, a cache clear that presents no
\* credentials or other credentials is answered 401 unauthorized and leaves
\* every cache as it was; with no pair configured, a cache clear is accepted
\* whatever it presents, credentials or none.
C17_AdminCredentials ==
    [][(out.pc = "idle" /\ out'.intent = "clear_cache") =>
          /\ (PairConfigured /\ out'.principal # environ.AUTH)
             => /\ out'.status = 401
                /\ out'.body = ErrorJson("unauthorized")
                /\ UNCHANGED caches
          /\ ~PairConfigured
             => /\ out'.status = 200
                /\ out'.body.tag = "cleared"
                /\ sync_cache' = EmptyMap /\ query_cache' = EmptyMap]_vars

\* A clear with the wrong password has been turned away while both Google
\* caches hold entries.
C17_Witness ==
    /\ out.intent = "clear_cache" /\ out.status = 401
    /\ out.principal = "admin:wrong"
    /\ sync_cache # EmptyMap /\ query_cache # EmptyMap

\* C18: remote_ui_settings changes only in the two writes of a POST
\* /edge/remote-ui that passed the credential check (with a pair configured,
\* one that presented that pair); a POST answered 401 leaves "enabled" and
\* "updated_at" as they were; no other step (GET, check, stats, cache clear,
\* fulfillment, the clock) changes them.
C18_OnlyAuthenticatedSet ==
    [][/\ \A r \in Req :
            (ui_req[r].pc = "idle" /\ ui_req'[r].pc = "stamp")
                => (PairConfigured => ui_req'[r].auth = environ.AUTH)
       /\ (out'.intent = "remote_ui_toggle" /\ out'.status = 401)
            => UNCHANGED <<remote_ui_settings, ui_req>>
       /\ remote_ui_settings' # remote_ui_settings
            => \E r \in Req :
                 /\ ui_req'[r].method = "POST"
                 /\ PairConfigured => ui_req'[r].auth = environ.AUTH
                 /\ \/ ui_req[r].pc = "idle" /\ ui_req'[r].pc = "stamp"
                    \/ ui_req[r].pc = "stamp" /\ ui_req'[r].pc = "respond"]_vars

\* After an authenticated POST has enabled remote access and stamped it, a POST
\* with the wrong password has been turned away.
C18_Witness ==
    /\ environ.AUTH = AUTH /\ ~environ.REMOTE_UI_ENABLED
    /\ remote_ui_settings.enabled /\ remote_ui_settings.updated_at > 0
    /\ out.intent = "remote_ui_toggle" /\ out.status = 401
    /\ out.principal = "admin:wrong"

\* C19: the access check admits a websocket upgrade whatever the setting, and
\* admits any other request exactly when remote access is enabled (200),
\* denying it otherwise (403).
C19_RemoteAccessCheck ==
    out.intent = "remote_ui_check" =>
        IF out.principal \in {"websocket", "WebSocket"}
        THEN out.status = 200
        ELSE out.status = (IF remote_ui_settings.enabled THEN 200 ELSE 403)

\* A websocket upgrade has been admitted after remote access was switched off.
C19_Witness ==
    /\ out.intent = "remote_ui_check" /\ out.principal = "WebSocket"
    /\ out.status = 200
    /\ environ.REMOTE_UI_ENABLED /\ ~remote_ui_settings.enabled

\* A step has just computed an offline-fallback response.
FallbackComputed == out.pc = "idle" /\ out'.pc \in {"done", "computed"} /\ out'.offline

\* C21: every offline-fallback response, of QUERY and of ReportState, carries
\* for each id it gives a state for the cached marker and the updated_at of the
\* state-cache entry the state was taken from.
C21_MarkerBothDialects ==
    [][FallbackComputed =>
          \A id \in IdsOf(out'.body, out'.devs) :
             /\ id \in DOMAIN StateCache(out'.dialect)
             /\ Marker(out'.body, id).cached
             /\ Marker(out'.body, id).at = EntryTime(out'.dialect, id)]_vars

\* How often timestamp t occurs in the list ts.
Occurs(ts, t) == Cardinality({i \in 1..Len(ts) : ts[i] = t})

\* C22: a rejected request records nothing: the list kept for its client after
\* the rejection is no longer than before and holds no timestamp more often
\* than before, so that a later request is judged as if the rejected ones had
\* never been made; an admitted request records exactly one timestamp, its own.
C22_RejectedNotRecorded ==
    [][\A r \in Req : Decides(r) =>
          LET before == Timestamps(req[r].ip)
              after == rate_limits'[req[r].ip]
          IN  IF out'.status = 429
              THEN /\ Len(after) <= Len(before)
                   /\ \A t \in 0..MaxTime : Occurs(after, t) <= Occurs(before, t)
                   /\ UNCHANGED <<recent, last_admit>>
              ELSE /\ Len(after) <= Len(before) + 1
                   /\ Occurs(after, req[r].now) = Occurs(before, req[r].now) + 1
                   /\ \A t \in (0..MaxTime) \ {req[r].now} :
                         Occurs(after, t) <= Occurs(before, t)]_vars

\* A request has been rejected while another request of the same client waits
\* for the limiter, and the list of that client holds the ceiling of timestamps
\* and no more.
C22_Witness ==
    /\ out.pc = "done" /\ out.status = 429
    /\ Len(rate_limits[out.ip]) = RATE_LIMIT_REQUESTS
    /\ \E r \in Req : req[r].pc = "rate" /\ req[r].ip = out.ip

\* C23: a request over the ceiling is rejected in the limiter's own step: the
\* step returns status 429 with the retry hint, the request has made no
\* upstream call, no cache read or write and no webhook call, no cache and no
\* other worker changes; and the limiter's step of a waiting request can be
\* taken whoever holds cache_lock and whatever the other workers wait for.
C23_RejectedAtOnce ==
    [][\A r \in Req :
          /\ (Decides(r) /\ out'.status = 429)
             => /\ req'[r] = Idle
                /\ out'.pc = "done"
                /\ out'.body.error = "rate_limit_exceeded"
                /\ out'.body.retry_after = RATE_LIMIT_WINDOW
                /\ out'.calls = 0 /\ out'.reads = 0 /\ out'.writes = 0
                /\ out'.hooks = 0
                /\ UNCHANGED <<caches, cache_lock, stored>>
                /\ \A o \in Req \ {r} : req'[o] = req[o]
          /\ (req[r].pc = "rate" /\ Ready) => ENABLED rate_limit(r)]_vars

\* A request has been rejected while another worker holds cache_lock in the
\* webhook POST of an Alexa fallback, with entries in the caches.
C23_Witness ==
    /\ out.pc = "done" /\ out.status = 429
    /\ cache_lock # 0 /\ req[cache_lock].pc = "webhook"
    /\ alexa_state_cache # EmptyMap

\* The reply says that the upstream could not be reached.
Down(reply) == reply.kind \in {"timeout", "connerr"}

\* C24 as stated: while the upstream stays unreachable, at most one
\* offline-fallback response is served: no fallback is served on a timeout or a
\* connection failure when one has been served before and every upstream call
\* ended in a timeout or a connection failure since.
C24_AsStated ==
    [][(FallbackComputed /\ Down(out'.reply)) => ~heard.fell_back]_vars

\* C24, amended: at most one fallback per request.  Every ReadState request
\* whose upstream call ends in a timeout or a connection failure while one of
\* its ids has a state-cache entry is served one offline-fallback response,
\* after one upstream call, and makes at most one webhook call for it, whether
\* or not a fallback has been served earlier in the same outage.
C24_OneFallbackPerRequest ==
    [][\A r \in Req :
          /\ (Answers(r) /\ Reads(r) /\ Down(out'.reply) /\ Known(req[r]) # {})
             => /\ out'.offline /\ out'.status = 200
                /\ out'.calls = 1
                /\ out'.hooks = (IF environ.WEBHOOK_URL = "" THEN 0 ELSE 1)
                /\ req'[r].pc \in {"idle", "webhook"}
          /\ (req[r].pc = "webhook" /\ req[r].offline /\ req'[r] # req[r])
             => /\ req'[r] = Idle
                /\ out'.pc = "returned" /\ out'.offline
                /\ out'.hooks = 1 /\ out'.calls = 1
                /\ out'.body = req[r].body]_vars

\* Two requests have been served from the state cache during the same outage:
\* both are in the webhook POST of their fallback.
C24_Witness ==
    /\ out.pc = "computed" /\ out.offline /\ Down(out.reply)
    /\ heard.fell_back
    /\ \A r \in Req : req[r].pc = "webhook" /\ req[r].offline

\* A request holds an upstream answer for id that it has still to write.
Unwritten(d, id) ==
    \E r \in Req :
        /\ req[r].pc = "store" /\ req[r].dialect = d
        /\ IF d = "google" THEN id \in DOMAIN req[r].reply.body.devices
           ELSE id \in req[r].devs

\* C25 as stated: once every answer to a ReadState has been written, the
\* state-cache entry of a device or endpoint holds the state that the most
\* recent successful upstream read gave for it.
C25_AsStated ==
    /\ \A id \in DOMAIN query_cache :
          ~Unwritten("google", id) =>
              id \in DOMAIN heard.google /\ query_cache[id].state.state = heard.google[id]
    /\ \A id \in DOMAIN alexa_state_cache :
          ~Unwritten("alexa", id) =>
              id \in DOMAIN heard.alexa /\ alexa_state_cache[id].properties = heard.alexa[id]

\* C25, amended: the last writer wins.  The cache write of a successful
\* ReadState puts the state of its own upstream answer into the entry of every
\* id of that answer, with the time of the write, whether or not another
\* request has read a later state in between, and leaves every other entry as
\* it was.
C25_LastWriterWins ==
    [][\A r \in Req : (req[r].pc = "store" /\ req'[r].pc # "store") =>
          LET answer == req[r].reply.body
          IN  /\ out'.pc = "done" /\ out'.status = 200 /\ out'.body = answer
              /\ IF req[r].dialect = "google"
                 THEN /\ DOMAIN query_cache' = (DOMAIN query_cache) \cup (DOMAIN answer.devices)
                      /\ \A id \in DOMAIN query_cache' :
                            IF id \in DOMAIN answer.devices
                            THEN /\ query_cache'[id].state = answer.devices[id]
                                 /\ query_cache'[id].updated_at = clock
                            ELSE query_cache'[id] = query_cache[id]
                      /\ UNCHANGED alexa_state_cache
                 ELSE /\ DOMAIN alexa_state_cache' = (DOMAIN alexa_state_cache) \cup req[r].devs
                      /\ \A id \in DOMAIN alexa_state_cache' :
                            IF id \in req[r].devs
                            THEN /\ alexa_state_cache'[id].properties = answer.properties
                                 /\ alexa_state_cache'[id].updated_at = clock
                            ELSE alexa_state_cache'[id] = alexa_state_cache[id]
                      /\ UNCHANGED query_cache]_vars

\* A request that read D1 before another request did has written after it: no
\* write is outstanding and the entry of D1 holds the earlier of the two states.
C25_Witness ==
    /\ out.pc = "done" /\ out.writes = 1 /\ out.dialect = "google"
    /\ \A r \in Req : req[r].pc # "store"
    /\ "D1" \in DOMAIN query_cache /\ "D1" \in DOMAIN heard.google
    /\ query_cache["D1"].state.state # heard.google["D1"]

\* C26: at every moment, every timestamp kept for every client lies inside the
\* window that ends at the current time.
C26_WindowFresh ==
    \A ip \in DOMAIN rate_limits :
        \A i \in 1..Len(rate_limits[ip]) :
            clock - rate_limits[ip][i] < RATE_LIMIT_WINDOW

\* C27: at every moment, for every client, the list of kept timestamps is no
\* longer than RATE_LIMIT_REQUESTS + 1, however many requests of that client
\* are in flight.
C27_WindowSizeBound ==
    \A ip \in DOMAIN rate_limits : Len(rate_limits[ip]) <= RATE_LIMIT_REQUESTS + 1

\* The list of a client is full after the admission of a request that is now
\* in its upstream call, while another request of that client waits for the
\* limiter.
C27_Witness ==
    \E ip \in DOMAIN rate_limits :
        /\ Len(rate_limits[ip]) = RATE_LIMIT_REQUESTS
        /\ \E r1 \in Req, r2 \in Req :
              /\ req[r1].pc = "upstream" /\ req[r1].ip = ip
              /\ req[r2].pc = "rate" /\ req[r2].ip = ip

\* C28: the timestamps kept for a client are in non-decreasing order.
C28_WindowOrdered ==
    \A ip \in DOMAIN rate_limits :
        \A i \in 1..Len(rate_limits[ip]), j \in 1..Len(rate_limits[ip]) :
            i < j => rate_limits[ip][i] <= rate_limits[ip][j]

\* C29: an upstream reply with a status outside 200..299, with or without a
\* JSON body, leaves the enumeration caches and the state caches of both
\* dialects as they were.
C29_OnlySuccessCached ==
    [][\A r \in Req :
          (/\ Answers(r)
           /\ out'.reply.kind = "json"
           /\ ~Is2xx(out'.reply.status))
          => UNCHANGED caches]_vars

\* The step is the answer to a ReadState request of dialect d, with a status in
\* 200..299 and a state for id, and leaves that state in the entry of id.
Replaces(d, id) ==
    \E r \in Req :
        /\ Answers(r) /\ Reads(r) /\ req[r].dialect = d
        /\ out'.reply.kind = "json" /\ Is2xx(out'.reply.status)
        /\ id \in IdsOf(out'.reply.body, req[r].devs)
        /\ id \in DOMAIN StateCache(d)'
        /\ StateCache(d)'[id].updated_at = clock
        /\ IF d = "google"
           THEN StateCache(d)'[id].state = out'.reply.body.devices[id]
           ELSE StateCache(d)'[id].properties = out'.reply.body.properties

\* The step is an accepted cache clear.
Removes(d, id) ==
    /\ out'.intent = "clear_cache" /\ out'.status = 200
    /\ id \notin DOMAIN StateCache(d)'

\* C30: a state-cache entry stays present and unchanged in every step, whatever
\* time passes, except a step in which a ReadState answered with a 2xx status
\* and a state for its id replaces it, or an accepted cache clear removes it.
C30_EntriesStay ==
    [][\A d \in {"google", "alexa"} : \A id \in DOMAIN StateCache(d) :
          \/ id \in DOMAIN StateCache(d)' /\ StateCache(d)'[id] = StateCache(d)[id]
          \/ Replaces(d, id)
          \/ Removes(d, id)]_vars

\* A clear of the caches is half done: sync_cache is cleared, query_cache not yet.
HalfCleared == \E r \in Req : ui_req[r].pc = "clear"

\* A bulk state write is partially applied: some, not all, devices are written.
HalfWritten ==
    \E r \in Req :
        /\ req[r].pc = "writing"
        /\ req[r].todo # {}
        /\ req[r].todo # DOMAIN proxy_to_upstream(req[r].reply).response.devices

\* The step is a read of the caches: the lookup of a SYNC, the fallback lookup
\* of a QUERY, or the statistics read.
ReadsCaches ==
    \/ \E r \in Req :
         /\ req[r].pc \in {"lookup", "upstream"}
         /\ (IF req'[r].pc = "idle" THEN out'.reads ELSE req'[r].reads) > req[r].reads
    \/ out.pc = "idle" /\ out'.intent = "edge_stats"

\* C31: no enumeration lookup, fallback lookup or statistics read happens while
\* a cache clear has emptied one cache and not yet the other, or while a bulk
\* state write has written some of its devices and not yet the others.
C31_ClearAndWriteAtomic == [][ReadsCaches => ~HalfCleared /\ ~HalfWritten]_vars

\* A clear has emptied sync_cache while query_cache still has its entries, and
\* a SYNC request stands before its lookup.
C31_Witness ==
    /\ HalfCleared
    /\ sync_cache = EmptyMap /\ query_cache # EmptyMap
    /\ \E r \in Req : req[r].pc = "lookup"

\* A bulk state write has written one of its two devices, and another QUERY
\* request waits for the upstream with entries in the cache to fall back on.
C31_HalfWrittenSeen ==
    /\ HalfWritten
    /\ \E r \in Req : req[r].pc = "upstream" /\ req[r].intent = "action.devices.QUERY"

\* Worker r is inside a `with cache_lock` block: the Alexa fallback that notifies
\* the webhook, a bulk state write, a cache clear or a statistics read.
InCacheLock(r) ==
    \/ req[r].pc \in {"webhook", "writing"}
    \/ ui_req[r].pc \in {"clear", "stats_cache"}

\* Worker r has a request under way.
Busy(r) == req[r].pc # "idle" \/ ui_req[r].pc # "idle"

\* C32: no worker holds cache_lock and rate_lock at the same time; cache_lock is
\* held only by a worker that is inside a `with cache_lock` block, so that a
\* request that has returned holds no lock; and whenever a request is under way,
\* some request under way can take its next step.
C32_LockDiscipline ==
    /\ \A r \in Req : ~(cache_lock = r /\ InRateLock(r))
    /\ \A r \in Req : cache_lock = r => InCacheLock(r)
    /\ cache_lock \in Req \cup {0}
    /\ (\E r \in Req : Busy(r)) => ENABLED StepLocks

\* One request holds cache_lock over its webhook call while another is inside
\* the decorator's `with rate_lock` block.
C32_Witness ==
    \E r1, r2 \in Req :
        /\ cache_lock = r1 /\ req[r1].pc = "webhook"
        /\ rate_lock = r2 /\ req[r2].pc = "limiting"

\* The response just computed is that of a GET or an accepted POST of
\* /edge/remote-ui.
ReturnsSetting ==
    /\ out.intent \in {"remote_ui_get", "remote_ui_toggle"}
    /\ out.status = 200

\* C33: the (enabled, updated_at) pair returned by a GET or by a POST of
\* /edge/remote-ui is the pair written by one single POST, or the initial pair.
C33_NeverTorn ==
    ReturnsSetting => <<out.body.enabled, out.body.updated_at>> \in written

\* C34: an Enumerate response served from the cache to a caller is a payload the
\* upstream made for an Enumerate request of that caller in that dialect, never
\* one made for another caller or for the other dialect, whatever the addresses
\* the requests came from.
C34_EnumerationIsolated ==
    (out.cached /\ Branch(out.dialect, out.intent) = "ENUM")
        => out.body.payload \in {Owned(out.dialect, out.principal, v) : v \in Versions}

\* Caller a is served from the Google cache while that cache also holds an
\* entry of caller b and the Alexa cache holds an entry of caller a.
C34_Witness ==
    /\ out.cached /\ out.dialect = "google" /\ out.principal = "a"
    /\ {UserId("google", "a"), UserId("google", "b")} \subseteq DOMAIN sync_cache
    /\ UserId("alexa", "a") \in DOMAIN alexa_discovery_cache

\* C35: a SYNC or QUERY request whose upstream call was in flight when the
\* caches were cleared writes neither sync_cache nor query_cache afterwards, so
\* that every entry present after a clear comes from an upstream call started
\* after it.
C35_NoRepopulation ==
    [][\A r \in Req : (req[r].preclear /\ req'[r] # req[r])
                        => UNCHANGED <<sync_cache, query_cache>>]_vars

\* The step ends the request of worker r.
Returns(r) == Busy(r) /\ ~Busy(r)'

\* C36: under a fair scheduler, with upstream calls and webhook posts that
\* return or time out, every fulfillment, statistics and cache-clear request
\* under way eventually returns, whatever the other worker does with the two
\* locks, and the step that ends a request computes its one response.
C36_EveryRequestReturns ==
    /\ \A r \in Req : Busy(r) ~> ~Busy(r)
    /\ [][\A r \in Req : Returns(r) => (out.pc = "idle" /\ out'.pc # "idle")]_vars

\* A Discovery request waits for cache_lock while the other worker holds it
\* over the webhook call of its fallback.
C36_Witness ==
    \E r1, r2 \in Req :
        /\ cache_lock = r1 /\ req[r1].pc = "webhook"
        /\ req[r2].pc = "lookup" /\ req[r2].dialect = "alexa"

====
